---- MODULE Spec2Model ----
(***************************************************************************)
(* Model of the intent-resolution pipeline of src/api/agent.py: the action *)
(* endpoint (handle_agent_request), its handlers (handle_create_item,      *)
(* handle_generate_learning_plan, handle_generate_grocery_plan), the       *)
(* milestone generator (generate_learning_milestones) and the JSON         *)
(* recovery the handlers apply to the model's text.                        *)
(*                                                                         *)
(* A text is a sequence of one-character strings.  The texts the model     *)
(* service answers with hold no backslash and no number that begins with   *)
(* a capital letter: string escapes and the literals NaN / Infinity of     *)
(* Python's json module are outside the model.                             *)
(***************************************************************************)
EXTENDS Integers, Sequences, FiniteSets, TLC

\* ------------------------------------------------------------------------
\* Python's json.loads, on texts over the model's alphabet
\* ------------------------------------------------------------------------

\* str.strip() / json whitespace
Ws == {" ", "\n", "\t", "\r"}

Digits == {"0", "1", "2", "3", "4", "5", "6", "7", "8", "9"}

\* A parsed JSON value.  Every value is a record of the same shape so that
\* any two values can be compared: t is the Python type of the value, s the
\* characters of a string or of a number literal, kv the members of a dict
\* in source order, el the elements of a list.
VNull == [t |-> "null", s |-> <<>>, kv |-> <<>>, el |-> <<>>]
VBool(lit) == [t |-> "bool", s |-> lit, kv |-> <<>>, el |-> <<>>]
VNum(ty, lit) == [t |-> ty, s |-> lit, kv |-> <<>>, el |-> <<>>]
VStr(chars) == [t |-> "str", s |-> chars, kv |-> <<>>, el |-> <<>>]
VDict(members) == [t |-> "dict", s |-> <<>>, kv |-> members, el |-> <<>>]
VList(elems) == [t |-> "list", s |-> <<>>, kv |-> <<>>, el |-> elems]

PFail(i) == [ok |-> FALSE, v |-> VNull, n |-> i]
POk(val, next) == [ok |-> TRUE, v |-> val, n |-> next]

\* first position >= i that holds no whitespace (Len(t)+1 at the end)
SkipWs(t, i) ==
  CHOOSE j \in i..(Len(t) + 1) :
    /\ (j = Len(t) + 1 \/ t[j] \notin Ws)
    /\ \A k \in i..(j - 1) : t[k] \in Ws

\* first position >= i that holds no digit
DigitsEnd(t, i) ==
  CHOOSE j \in i..(Len(t) + 1) :
    /\ (j = Len(t) + 1 \/ t[j] \notin Digits)
    /\ \A k \in i..(j - 1) : t[k] \in Digits

At(t, i) == IF i >= 1 /\ i <= Len(t) THEN t[i] ELSE "EOF"

Match(t, i, w) ==
  /\ i + Len(w) - 1 <= Len(t)
  /\ SubSeq(t, i, i + Len(w) - 1) = w

\* json.decoder.py_scanstring without escapes: the string ends at the next
\* quote; a control character inside it is an error
ParseString(t, i) ==
  LET closing == {j \in (i + 1)..Len(t) : t[j] = "\""}
  IN IF closing = {} THEN PFail(i)
     ELSE LET j == CHOOSE x \in closing : \A y \in closing : x <= y
          IN IF \E k \in (i + 1)..(j - 1) : t[k] \in {"\n", "\t", "\r"}
             THEN PFail(i)
             ELSE POk(VStr(SubSeq(t, i + 1, j - 1)), j + 1)

\* json.scanner NUMBER_RE: (-?(?:0|[1-9]\d*))(\.\d+)?([eE][-+]?\d+)?
ParseNumber(t, i) ==
  LET p0 == IF At(t, i) = "-" THEN i + 1 ELSE i
      intEnd == IF At(t, p0) = "0" THEN p0 + 1 ELSE DigitsEnd(t, p0)
      hasFrac == At(t, intEnd) = "." /\ At(t, intEnd + 1) \in Digits
      fracEnd == IF hasFrac THEN DigitsEnd(t, intEnd + 1) ELSE intEnd
      expAt == IF At(t, fracEnd + 1) = "-" THEN fracEnd + 2 ELSE fracEnd + 1
      hasExp == At(t, fracEnd) = "e" /\ At(t, expAt) \in Digits
      end == IF hasExp THEN DigitsEnd(t, expAt) ELSE fracEnd
  IN IF At(t, p0) \notin Digits THEN PFail(i)
     ELSE POk(VNum(IF hasFrac \/ hasExp THEN "float" ELSE "int",
                   SubSeq(t, i, end - 1)), end)

RECURSIVE ParseValue(_, _), ParseMembers(_, _, _), ParseElements(_, _, _)

\* json.scanner.py_make_scanner._scan_once
ParseValue(t, i) ==
  LET c == At(t, i)
  IN CASE c = "\"" -> ParseString(t, i)
       [] c = "{" ->
            LET j == SkipWs(t, i + 1)
            IN IF At(t, j) = "}" THEN POk(VDict(<<>>), j + 1)
               ELSE ParseMembers(t, j, <<>>)
       [] c = "[" ->
            LET j == SkipWs(t, i + 1)
            IN IF At(t, j) = "]" THEN POk(VList(<<>>), j + 1)
               ELSE ParseElements(t, j, <<>>)
       [] c = "n" /\ Match(t, i, <<"n", "u", "l", "l">>) -> POk(VNull, i + 4)
       [] c = "t" /\ Match(t, i, <<"t", "r", "u", "e">>) ->
            POk(VBool(<<"t", "r", "u", "e">>), i + 4)
       [] c = "f" /\ Match(t, i, <<"f", "a", "l", "s", "e">>) ->
            POk(VBool(<<"f", "a", "l", "s", "e">>), i + 5)
       [] OTHER -> ParseNumber(t, i)

\* json.decoder.JSONObject: the members after the opening brace
ParseMembers(t, j, acc) ==
  IF At(t, j) # "\"" THEN PFail(j)
  ELSE LET key == ParseString(t, j)
           colon == SkipWs(t, key.n)
           val == ParseValue(t, SkipWs(t, colon + 1))
           e == SkipWs(t, val.n)
           members == Append(acc, [k |-> key.v.s, v |-> val.v])
       IN IF ~key.ok \/ At(t, colon) # ":" THEN PFail(j)
          ELSE IF ~val.ok THEN PFail(j)
          ELSE IF At(t, e) = "}" THEN POk(VDict(members), e + 1)
          ELSE IF At(t, e) = "," THEN ParseMembers(t, SkipWs(t, e + 1), members)
          ELSE PFail(j)

\* json.decoder.JSONArray: the elements after the opening bracket
ParseElements(t, j, acc) ==
  LET val == ParseValue(t, j)
      e == SkipWs(t, val.n)
      elems == Append(acc, val.v)
  IN IF ~val.ok THEN PFail(j)
     ELSE IF At(t, e) = "]" THEN POk(VList(elems), e + 1)
     ELSE IF At(t, e) = "," THEN ParseElements(t, SkipWs(t, e + 1), elems)
     ELSE PFail(j)

\* json.loads: one value, surrounded by whitespace only
JsonLoads(t) ==
  LET End(r) == IF r.ok /\ SkipWs(t, r.n) = Len(t) + 1
                THEN [ok |-> TRUE, v |-> r.v]
                ELSE [ok |-> FALSE, v |-> VNull]
  IN End(ParseValue(t, SkipWs(t, 1)))

\* str.strip()
Strip(t) ==
  LET a == SkipWs(t, 1)
  IN IF a = Len(t) + 1 THEN <<>>
     ELSE LET b == CHOOSE j \in a..Len(t) :
                     t[j] \notin Ws /\ \A k \in (j + 1)..Len(t) : t[k] \in Ws
          IN SubSeq(t, a, b)

\* dict.get(key): the last member with that key, as Python keeps the last
\* of duplicate keys
HasKey(d, key) == d.t = "dict" /\ \E i \in 1..Len(d.kv) : d.kv[i].k = key

Get(d, key) ==
  IF HasKey(d, key)
  THEN LET i == CHOOSE x \in 1..Len(d.kv) :
                  d.kv[x].k = key /\ \A y \in (x + 1)..Len(d.kv) : d.kv[y].k # key
       IN d.kv[i].v
  ELSE VNull

\* ------------------------------------------------------------------------
\* Names the code looks up in the model's JSON
\* ------------------------------------------------------------------------
W_intent == <<"i", "n", "t", "e", "n", "t">>
W_create_item == <<"c", "r", "e", "a", "t", "e", "_", "i", "t", "e", "m">>
W_generate_learning_plan == <<"g", "e", "n", "e", "r", "a", "t", "e", "_", "l", "e", "a", "r", "n", "i", "n", "g", "_", "p", "l", "a", "n">>
W_analyze_data == <<"a", "n", "a", "l", "y", "z", "e", "_", "d", "a", "t", "a">>
W_answer_question == <<"a", "n", "s", "w", "e", "r", "_", "q", "u", "e", "s", "t", "i", "o", "n">>
W_answer == <<"a", "n", "s", "w", "e", "r">>
W_type == <<"t", "y", "p", "e">>
W_data == <<"d", "a", "t", "a">>
W_task == <<"t", "a", "s", "k">>
W_grocery == <<"g", "r", "o", "c", "e", "r", "y">>
W_expense == <<"e", "x", "p", "e", "n", "s", "e">>
W_goal == <<"g", "o", "a", "l">>
W_commitment == <<"c", "o", "m", "m", "i", "t", "m", "e", "n", "t">>
W_reminder == <<"r", "e", "m", "i", "n", "d", "e", "r">>
W_notification == <<"n", "o", "t", "i", "f", "i", "c", "a", "t", "i", "o", "n">>
W_title == <<"t", "i", "t", "l", "e">>
W_item_name == <<"i", "t", "e", "m", "_", "n", "a", "m", "e">>
W_plan_details == <<"p", "l", "a", "n", "_", "d", "e", "t", "a", "i", "l", "s">>
W_topic == <<"t", "o", "p", "i", "c">>
W_week == <<"w", "e", "e", "k">>
W_description == <<"d", "e", "s", "c", "r", "i", "p", "t", "i", "o", "n">>
W_topics_covered == <<"t", "o", "p", "i", "c", "s", "_", "c", "o", "v", "e", "r", "e", "d">>
W_learning_objectives == <<"l", "e", "a", "r", "n", "i", "n", "g", "_", "o", "b", "j", "e", "c", "t", "i", "v", "e", "s">>
W_tasks == <<"t", "a", "s", "k", "s">>
W_resources == <<"r", "e", "s", "o", "u", "r", "c", "e", "s">>
W_tips == <<"t", "i", "p", "s">>
W_estimated_hours == <<"e", "s", "t", "i", "m", "a", "t", "e", "d", "_", "h", "o", "u", "r", "s">>
W_grocery_item == <<"g", "r", "o", "c", "e", "r", "y", "_", "i", "t", "e", "m">>
W_grocery_id == <<"g", "r", "o", "c", "e", "r", "y", "_", "i", "d">>
W_calories == <<"c", "a", "l", "o", "r", "i", "e", "s">>
W_grocery_plan == <<"g", "r", "o", "c", "e", "r", "y", "_", "p", "l", "a", "n">>
W_user_id == <<"u", "s", "e", "r", "_", "i", "d">>
W_id == <<"i", "d">>
W_quantity == <<"q", "u", "a", "n", "t", "i", "t", "y">>
W_unit == <<"u", "n", "i", "t">>
W_price == <<"p", "r", "i", "c", "e">>
W_estimated_price == <<"e", "s", "t", "i", "m", "a", "t", "e", "d", "_", "p", "r", "i", "c", "e">>
W_bought == <<"b", "o", "u", "g", "h", "t">>
W_goal_id == <<"g", "o", "a", "l", "_", "i", "d">>
W_duration_months == <<"d", "u", "r", "a", "t", "i", "o", "n", "_", "m", "o", "n", "t", "h", "s">>
W_priority == <<"p", "r", "i", "o", "r", "i", "t", "y">>
W_estimate == <<"e", "s", "t", "i", "m", "a", "t", "e">>
W_tags == <<"t", "a", "g", "s">>
W_status == <<"s", "t", "a", "t", "u", "s">>
W_learning == <<"l", "e", "a", "r", "n", "i", "n", "g">>
W_auto_generated == <<"a", "u", "t", "o", "-", "g", "e", "n", "e", "r", "a", "t", "e", "d">>
W_Inbox == <<"I", "n", "b", "o", "x">>
W_piece == <<"p", "i", "e", "c", "e">>
W_due_absolute_iso == <<"d", "u", "e", "_", "a", "b", "s", "o", "l", "u", "t", "e", "_", "i", "s", "o">>
W_due_date == <<"d", "u", "e", "_", "d", "a", "t", "e">>
W_due_date_utc == <<"d", "u", "e", "_", "d", "a", "t", "e", "_", "u", "t", "c">>
W_due_date_local == <<"d", "u", "e", "_", "d", "a", "t", "e", "_", "l", "o", "c", "a", "l">>
W_timezone == <<"t", "i", "m", "e", "z", "o", "n", "e">>
W_start_time == <<"s", "t", "a", "r", "t", "_", "t", "i", "m", "e">>
W_end_time == <<"e", "n", "d", "_", "t", "i", "m", "e">>
W_deadline == <<"d", "e", "a", "d", "l", "i", "n", "e">>
W_Asia_Kolkata == <<"A", "s", "i", "a", "/", "K", "o", "l", "k", "a", "t", "a">>
W_weekly_milestones == <<"w", "e", "e", "k", "l", "y", "_", "m", "i", "l", "e", "s", "t", "o", "n", "e", "s">>

\* ------------------------------------------------------------------------
\* Recovery of JSON from the model's text
\* ------------------------------------------------------------------------

\* str.find(c), 1-based; 0 when c does not occur
Find(t, c) ==
  IF \E i \in 1..Len(t) : t[i] = c
  THEN CHOOSE i \in 1..Len(t) : t[i] = c /\ \A k \in 1..(i - 1) : t[k] # c
  ELSE 0

StartsWith(t, w) == Match(t, 1, w)

EndsWith(t, w) == Len(t) >= Len(w) /\ SubSeq(t, Len(t) - Len(w) + 1, Len(t)) = w

\* the backquote character (a TLA+ string cannot hold it)
BQ == "backquote"

Fence == <<BQ, BQ, BQ>>

FenceJson == <<BQ, BQ, BQ, "j", "s", "o", "n">>

\* the slice t[:n] of Python, which stops at the end of t
Take(t, n) == SubSeq(t, 1, IF n <= Len(t) THEN n ELSE Len(t))

\* brace_count after the first i characters of jc
Depth(jc, i) ==
  Cardinality({k \in 1..i : jc[k] = "{"}) - Cardinality({k \in 1..i : jc[k] = "}"})

\* the brace-counting loop: it stops behind the first "}" that brings
\* brace_count to 0 (end = number of characters kept); when no "}" does, end
\* keeps its initial value and brace_count is what the whole text leaves
BraceScan(jc, initialEnd) ==
  LET closes == {i \in 1..Len(jc) : jc[i] = "}" /\ Depth(jc, i) = 0}
  IN IF closes = {}
     THEN [end |-> initialEnd, count |-> Depth(jc, Len(jc))]
     ELSE [end |-> CHOOSE i \in closes : \A k \in closes : i <= k, count |-> 0]

ExtractResult(status, val) == [status |-> status, v |-> val]

\* handle_agent_request: "Robustly extract JSON from AI response"
ExtractIntentObject(raw) ==
  LET Recovered(second) ==
        IF second.ok THEN ExtractResult("ok", second.v)
        ELSE ExtractResult("unparsable", VNull)
      Scanned(jc, scan) ==
        IF scan.count # 0 THEN ExtractResult("unbalanced", VNull)
        ELSE Recovered(JsonLoads(Take(jc, scan.end)))
      Loaded(jc, start, first) ==
        IF first.ok THEN ExtractResult("ok", first.v)
        ELSE Scanned(jc, BraceScan(jc, start - 1))
      Sliced(jc, start) == Loaded(jc, start, JsonLoads(jc))
      Found(ai, start) ==
        IF start = 0 THEN ExtractResult("no_json", VNull)
        ELSE Sliced(SubSeq(ai, start, Len(ai)), start)
      Stripped(ai) == Found(ai, Find(ai, "{"))
  IN Stripped(Strip(raw))

\* handle_generate_grocery_plan: the same recovery without the balance test
ExtractGroceryObject(raw) ==
  LET Recovered(second) ==
        IF second.ok THEN ExtractResult("ok", second.v)
        ELSE ExtractResult("unparsable", VNull)
      Scanned(jc, scan) == Recovered(JsonLoads(Take(jc, scan.end)))
      Loaded(jc, start, first) ==
        IF first.ok THEN ExtractResult("ok", first.v)
        ELSE Scanned(jc, BraceScan(jc, start - 1))
      Sliced(jc, start) == Loaded(jc, start, JsonLoads(jc))
      Found(ai, start) ==
        IF start = 0 THEN ExtractResult("no_json", VNull)
        ELSE Sliced(SubSeq(ai, start, Len(ai)), start)
      Stripped(ai) == Found(ai, Find(ai, "{"))
  IN Stripped(Strip(raw))

\* generate_learning_milestones: "Remove markdown code block markers"
CleanFences(raw) ==
  LET g == Strip(raw)
      a == IF StartsWith(g, FenceJson) THEN SubSeq(g, 8, Len(g))
           ELSE IF StartsWith(g, Fence) THEN SubSeq(g, 4, Len(g))
           ELSE g
      b == IF EndsWith(a, Fence) THEN SubSeq(a, 1, Len(a) - 3) ELSE a
  IN Strip(b)

\* ------------------------------------------------------------------------
\* The milestone validator of generate_learning_milestones
\* ------------------------------------------------------------------------

\* required_fields, in the order the dict is iterated
RequiredFields == <<
  [f |-> W_week, ty |-> {"int"}],
  [f |-> W_title, ty |-> {"str"}],
  [f |-> W_description, ty |-> {"str"}],
  [f |-> W_topics_covered, ty |-> {"list"}],
  [f |-> W_learning_objectives, ty |-> {"list"}],
  [f |-> W_tasks, ty |-> {"list"}],
  [f |-> W_resources, ty |-> {"list"}],
  [f |-> W_tips, ty |-> {"list"}],
  [f |-> W_estimated_hours, ty |-> {"int", "float"}] >>

\* isinstance(v, types): a Python bool is an instance of int
IsInstance(v, types) == v.t \in types \/ (v.t = "bool" /\ "int" \in types)

\* w in s, for two strings
Contains(s, w) == \E i \in 1..(Len(s) + 1) : Match(s, i, w)

\* field in milestone: "yes", "no", or "raise" when the operand has no
\* membership test
FieldIn(field, m) ==
  CASE m.t = "dict" -> IF HasKey(m, field) THEN "yes" ELSE "no"
    [] m.t = "list" ->
         IF \E i \in 1..Len(m.el) : m.el[i].t = "str" /\ m.el[i].s = field
         THEN "yes" ELSE "no"
    [] m.t = "str" -> IF Contains(m.s, field) THEN "yes" ELSE "no"
    [] OTHER -> "raise"

\* one (milestone, field) step of the validation loop: "ok", "missing" and
\* "invalid_type" (the two ValueErrors) or "type_error" (milestone[field] or
\* the membership test raised)
CheckField(m, k) ==
  LET rf == RequiredFields[k]
      isIn == FieldIn(rf.f, m)
  IN IF isIn = "raise" THEN "type_error"
     ELSE IF isIn = "no" THEN "missing"
     ELSE IF m.t # "dict" THEN "type_error"
     ELSE IF IsInstance(Get(m, rf.f), rf.ty) THEN "ok"
     ELSE "invalid_type"

Verdict(ok, kind, field, index) ==
  [ok |-> ok, kind |-> kind, field |-> field, index |-> index]

\* the validation of a parsed response: the first failing (milestone,
\* field) pair, milestones outermost, decides the error
ValidateMilestones(v) ==
  IF v.t # "list" THEN Verdict(FALSE, "not_list", <<>>, 0)
  ELSE LET nf == Len(RequiredFields)
           bad == {p \in (1..Len(v.el)) \X (1..nf) : CheckField(v.el[p[1]], p[2]) # "ok"}
       IN IF bad = {} THEN Verdict(TRUE, "ok", <<>>, 0)
          ELSE LET p == CHOOSE x \in bad : \A y \in bad :
                          x[1] < y[1] \/ (x[1] = y[1] /\ x[2] <= y[2])
               IN Verdict(FALSE, CheckField(v.el[p[1]], p[2]),
                          RequiredFields[p[2]].f, p[1])

\* generate_learning_milestones: the cleaned text must parse, to a list
ExtractMilestoneArray(raw) ==
  LET Listed(loaded) ==
        IF ~loaded.ok THEN ExtractResult("unparsable", VNull)
        ELSE IF loaded.v.t # "list" THEN ExtractResult("not_list", VNull)
        ELSE ExtractResult("ok", loaded.v)
  IN Listed(JsonLoads(CleanFences(raw)))

\* the text of a model response turned into validated milestones, or the
\* exception generate_learning_milestones raises
ParseMilestones(raw) ==
  LET Checked(loaded) ==
        IF ~loaded.ok THEN [verdict |-> Verdict(FALSE, "parse_error", <<>>, 0), v |-> VNull]
        ELSE [verdict |-> ValidateMilestones(loaded.v), v |-> loaded.v]
  IN Checked(JsonLoads(CleanFences(raw)))

\* ------------------------------------------------------------------------
\* Texts the model service may answer with
\* ------------------------------------------------------------------------
Quote == <<"\"">>

TStr(w) == Quote \o w \o Quote

TMember(k, valueText) == TStr(k) \o <<":">> \o valueText

RECURSIVE Join(_, _)
Join(parts, sep) ==
  IF parts = <<>> THEN <<>>
  ELSE IF Len(parts) = 1 THEN parts[1]
  ELSE parts[1] \o sep \o Join(Tail(parts), sep)

TObj(members) == <<"{">> \o Join(members, <<",">>) \o <<"}">>

TArr(elems) == <<"[">> \o Join(elems, <<",">>) \o <<"]">>

\* the ten answer formats of the classification prompt, by intent; the
\* last three are answers the prompt does not ask for
IntentJs == {
  TObj(<<TMember(W_intent, TStr(W_answer_question)), TMember(W_answer, TStr(<<"o", "k">>))>>),
  TObj(<<TMember(W_intent, TStr(W_answer_question)), TMember(W_answer, TStr(<<"}">>))>>),
  TObj(<<TMember(W_intent, TStr(W_analyze_data))>>),
  TObj(<<TMember(W_intent, TStr(W_create_item)), TMember(W_type, TStr(W_task)),
         TMember(W_data, TObj(<<TMember(W_title, TStr(<<"a">>))>>))>>),
  TObj(<<TMember(W_intent, TStr(W_create_item)), TMember(W_type, TStr(W_grocery)),
         TMember(W_data, TObj(<<TMember(W_item_name, TStr(<<"a">>))>>))>>),
  TObj(<<TMember(W_intent, TStr(W_create_item)), TMember(W_type, TStr(<<"x">>)),
         TMember(W_data, TObj(<<>>))>>),
  TObj(<<TMember(W_intent, TStr(W_generate_learning_plan)),
         TMember(W_plan_details, TObj(<<TMember(W_topic, TStr(<<"a">>))>>))>>),
  TObj(<<TMember(W_intent, TStr(<<"x">>))>>),
  TObj(<<TMember(W_intent, <<"n", "u", "l", "l">>)>>),
  TObj(<<TMember(W_answer, TStr(<<"o", "k">>))>>) }

\* what may stand before and after the JSON: nothing, prose, a code fence
Prefixes == {<<>>, <<"o", "k", " ">>, FenceJson \o <<"\n">>}

Suffixes == {<<>>, <<" ", "o", "k">>, <<"\n">> \o Fence}

\* texts with no JSON object in them: no brace, an object cut short, braces
\* around something that is no JSON
BrokenTexts == {
  <<>>,
  <<"o", "k">>,
  <<"{">> \o TMember(W_intent, TStr(W_answer_question)),
  <<"{", "o", "k", "}">>,
  <<"{", "o", "k", "}", " ", "o", "k">> }

\* a JSON text as the model may wrap it
Wrapped(j) == {p \o j \o x : p \in Prefixes, x \in Suffixes}

\* a create_item answer: the item type and the members of its data
CreateJs(type, members) ==
  TObj(<<TMember(W_intent, TStr(W_create_item)), TMember(W_type, TStr(type)),
         TMember(W_data, TObj(members))>>)

\* create_item answers that leave out what the prompt asks for
ItemJs == {
  CreateJs(W_task, <<>>),
  CreateJs(W_grocery, <<TMember(W_quantity, <<"2">>)>>) }

\* date and time expressions without offset: the example of the prompt,
\* times whose UTC day is the last of February, of a leap February and of
\* the year before, a time without seconds, a date alone
LocalDates == {
  <<"2", "0", "2", "5", "-", "0", "8", "-", "3", "1", "T", "1", "7", ":", "0", "0", ":", "0", "0">>,
  <<"2", "0", "2", "5", "-", "0", "3", "-", "0", "1", "T", "0", "2", ":", "0", "0", ":", "0", "0">>,
  <<"2", "0", "2", "4", "-", "0", "3", "-", "0", "1", "T", "0", "5", ":", "2", "9", ":", "5", "9">>,
  <<"2", "0", "2", "6", "-", "0", "1", "-", "0", "1", "T", "0", "0", ":", "0", "0", ":", "0", "0">>,
  <<"2", "0", "2", "5", "-", "0", "8", "-", "3", "1", "T", "1", "7", ":", "0", "0">>,
  <<"2", "0", "2", "5", "-", "0", "8", "-", "3", "1">> }

\* expressions that name their own offset
ZonedDates == {
  <<"2", "0", "2", "5", "-", "0", "8", "-", "3", "1", "T", "1", "7", ":", "0", "0", ":", "0", "0", "Z">>,
  <<"2", "0", "2", "5", "-", "0", "8", "-", "3", "1", "T", "1", "7", ":", "0", "0", ":", "0", "0", "+", "0", "2", ":", "0", "0">> }

\* words that are no ISO 8601 text
NoDates == {<<"t", "o", "m", "o", "r", "r", "o", "w">>}

ATitle == TMember(W_title, TStr(<<"a">>))

\* create_item answers with a date-bearing field, by item type
DatedJs ==
  { CreateJs(W_task, <<ATitle, TMember(W_due_absolute_iso, TStr(x))>>) :
      x \in LocalDates \cup ZonedDates \cup NoDates }
  \cup { CreateJs(W_reminder, <<ATitle, TMember(W_due_date, TStr(x))>>) :
           x \in {<<"2", "0", "2", "5", "-", "0", "8", "-", "3", "1", "T", "1", "5", ":", "0", "0", ":", "0", "0">>} \cup NoDates }
  \cup { CreateJs(W_goal, <<ATitle, TMember(W_deadline, TStr(x))>>) :
           x \in {<<"2", "0", "2", "5", "-", "1", "2", "-", "3", "1", "T", "2", "3", ":", "5", "9", ":", "5", "9">>} \cup NoDates }
  \cup { CreateJs(W_commitment, <<ATitle, TMember(W_start_time, TStr(<<"2", "0", "2", "5", "-", "0", "8", "-", "3", "1", "T", "1", "4", ":", "0", "0", ":", "0", "0">>)),
                                  TMember(W_end_time, TStr(x))>>) :
           x \in {<<"2", "0", "2", "5", "-", "0", "8", "-", "3", "1", "T", "1", "5", ":", "0", "0", ":", "0", "0">>} \cup NoDates }

\* answers to the classification prompt: each format bare, two of them
\* wrapped in every way, and the broken texts
\* learning-plan answers with a duration: a negative number of months, and
\* null for it
PlanJs == {
  TObj(<<TMember(W_intent, TStr(W_generate_learning_plan)),
         TMember(W_plan_details, TObj(<<TMember(W_topic, TStr(<<"a">>)), months>>))>>) :
    months \in {TMember(<<"d", "u", "r", "a", "t", "i", "o", "n", "_", "m", "o", "n", "t", "h", "s">>, <<"-", "1">>),
                TMember(<<"d", "u", "r", "a", "t", "i", "o", "n", "_", "m", "o", "n", "t", "h", "s">>, <<"n", "u", "l", "l">>)}}

IntentReplies ==
  IntentJs
  \cup ItemJs
  \cup PlanJs
  \cup DatedJs
  \cup Wrapped(TObj(<<TMember(W_intent, TStr(W_answer_question)), TMember(W_answer, TStr(<<"}">>))>>))
  \cup Wrapped(TObj(<<TMember(W_intent, TStr(<<"x">>))>>))
  \cup BrokenTexts

\* one weekly milestone as the prompt of generate_learning_milestones asks
\* for it: <<field, text of its value>>, nine fields
FullMilestone == <<
  <<W_week, <<"1">>>>,
  <<W_title, TStr(<<"a">>)>>,
  <<W_description, TStr(<<"b">>)>>,
  <<W_topics_covered, TArr(<<TStr(<<"c">>)>>)>>,
  <<W_learning_objectives, TArr(<<>>)>>,
  <<W_tasks, TArr(<<TStr(<<"d">>), TStr(<<"e">>)>>)>>,
  <<W_estimated_hours, <<"8">>>>,
  <<W_tips, TArr(<<>>)>>,
  <<W_resources, TArr(<<>>)>> >>

MilestoneText(fields) ==
  TObj([i \in 1..Len(fields) |-> TMember(fields[i][1], fields[i][2])])

WithField(fields, key, valueText) ==
  [i \in 1..Len(fields) |-> IF fields[i][1] = key THEN <<key, valueText>> ELSE fields[i]]

WithoutField(fields, key) ==
  LET keep(m) == m[1] # key IN SelectSeq(fields, keep)

GoodMilestones == TArr(<<MilestoneText(FullMilestone)>>)

\* answers to the milestone prompt: complete plans (bare, fenced, with a
\* week number of the model's choosing and fractional hours), a plan behind
\* prose, plans with a missing or mistyped field, an empty plan, an object,
\* empty content
MilestoneReplies == {
  GoodMilestones,
  FenceJson \o <<"\n">> \o GoodMilestones \o <<"\n">> \o Fence,
  TArr(<<MilestoneText(FullMilestone),
         MilestoneText(WithField(WithField(FullMilestone, W_week, <<"7">>),
                                 W_estimated_hours, <<"1", ".", "5">>))>>),
  <<"o", "k", " ">> \o GoodMilestones,
  TArr(<<MilestoneText(FullMilestone),
         MilestoneText(WithoutField(FullMilestone, W_tasks))>>),
  TArr(<<MilestoneText(WithField(FullMilestone, W_week, TStr(<<"1">>)))>>),
  TArr(<<MilestoneText(WithField(FullMilestone, W_week, <<"t", "r", "u", "e">>))>>),
  TArr(<<>>),
  TObj(<<>>),
  <<>> }

\* n characters of prose
Pad(n) == [i \in 1..n |-> "x"]

GroceryItem(name) == TObj(<<TMember(W_item_name, TStr(name))>>)

GroceryPlan(items) == TObj(<<TMember(W_grocery_plan, TArr(items))>>)

GroceryJs == {
  GroceryPlan(<<GroceryItem(<<"a">>)>>),
  GroceryPlan(<<GroceryItem(<<"a">>), GroceryItem(<<"b">>)>>),
  GroceryPlan(<<GroceryItem(<<"{">>)>>),
  GroceryPlan(<<>>),
  TObj(<<>>) }

\* answers to the grocery prompt; the last one puts as many characters of
\* prose before the JSON as the JSON is long
GroceryReplies ==
  GroceryJs
  \cup Wrapped(GroceryPlan(<<GroceryItem(<<"a">>)>>))
  \cup BrokenTexts
  \cup {LET j == GroceryPlan(<<GroceryItem(<<"{">>)>>)
        IN Pad(Len(j)) \o j \o <<" ", "o", "k">>}

\* ------------------------------------------------------------------------
\* Python values
\* ------------------------------------------------------------------------

\* bool(v)
Truthy(v) ==
  CASE v.t = "null" -> FALSE
    [] v.t = "bool" -> v.s = <<"t", "r", "u", "e">>
    [] v.t \in {"int", "float"} ->
         \E i \in 1..Len(v.s) :
           v.s[i] \in (Digits \ {"0"}) /\ \A k \in 1..(i - 1) : v.s[k] # "e"
    [] v.t = "str" -> v.s # <<>>
    [] v.t = "list" -> v.el # <<>>
    [] OTHER -> v.kv # <<>>

\* d[key] = val
Put(d, key, val) ==
  IF HasKey(d, key)
  THEN VDict([i \in 1..Len(d.kv) |-> IF d.kv[i].k = key THEN [k |-> key, v |-> val] ELSE d.kv[i]])
  ELSE VDict(Append(d.kv, [k |-> key, v |-> val]))

\* d.get(key, default)
GetOr(d, key, default) == IF HasKey(d, key) THEN Get(d, key) ELSE default

\* del d[key]
Del(d, key) ==
  LET Keep(m) == m.k # key
  IN VDict(SelectSeq(d.kv, Keep))

\* ------------------------------------------------------------------------
\* Dates and times: pendulum.parse, in_timezone, to_iso8601_string
\* ------------------------------------------------------------------------

DigitChars == <<"0", "1", "2", "3", "4", "5", "6", "7", "8", "9">>

DigitVal(c) == (CHOOSE n \in 1..10 : DigitChars[n] = c) - 1

AllDigits(t) == \A i \in 1..Len(t) : t[i] \in Digits

\* int(t) for a text of digits
RECURSIVE NumVal(_)
NumVal(t) ==
  IF t = <<>> THEN 0
  ELSE NumVal(SubSeq(t, 1, Len(t) - 1)) * 10 + DigitVal(t[Len(t)])

\* the UTC offset of Asia/Kolkata, in minutes
KolkataOffset == 330

IsLeap(y) == (y % 4 = 0 /\ y % 100 # 0) \/ y % 400 = 0

DaysIn(y, mo) ==
  IF mo = 2 THEN (IF IsLeap(y) THEN 29 ELSE 28)
  ELSE IF mo \in {4, 6, 9, 11} THEN 30 ELSE 31

\* a date and time of day with its UTC offset in minutes; zone is "UTC",
\* "Asia/Kolkata" or "fixed" (an offset read from the text)
DateTime(y, mo, d, h, mi, sec, off, zone) ==
  [y |-> y, mo |-> mo, d |-> d, h |-> h, mi |-> mi, sec |-> sec, off |-> off, zone |-> zone]

PrevDay(dt) ==
  IF dt.d > 1 THEN [dt EXCEPT !.d = dt.d - 1]
  ELSE IF dt.mo > 1 THEN [dt EXCEPT !.mo = dt.mo - 1, !.d = DaysIn(dt.y, dt.mo - 1)]
  ELSE [dt EXCEPT !.y = dt.y - 1, !.mo = 12, !.d = 31]

NextDay(dt) ==
  IF dt.d < DaysIn(dt.y, dt.mo) THEN [dt EXCEPT !.d = dt.d + 1]
  ELSE IF dt.mo < 12 THEN [dt EXCEPT !.mo = dt.mo + 1, !.d = 1]
  ELSE [dt EXCEPT !.y = dt.y + 1, !.mo = 1, !.d = 1]

\* DateTime.add(days=n), n >= 0, in a zone without clock changes
RECURSIVE AddDays(_, _)
AddDays(dt, n) == IF n = 0 THEN dt ELSE AddDays(NextDay(dt), n - 1)

\* the same instant on the clock of another offset (less than a day away)
AtOffset(dt, off, zone) ==
  LET Moved(total) ==
        IF total < 0
        THEN [PrevDay(dt) EXCEPT !.h = (total + 1440) \div 60, !.mi = (total + 1440) % 60,
                                 !.off = off, !.zone = zone]
        ELSE IF total >= 1440
        THEN [NextDay(dt) EXCEPT !.h = (total - 1440) \div 60, !.mi = (total - 1440) % 60,
                                 !.off = off, !.zone = zone]
        ELSE [dt EXCEPT !.h = total \div 60, !.mi = total % 60, !.off = off, !.zone = zone]
  IN Moved(dt.h * 60 + dt.mi - dt.off + off)

\* a conversion that relabels the clock time instead of moving it
InUTCRelabel(dt) == [dt EXCEPT !.off = 0, !.zone = "UTC"]

\* DateTime.in_timezone('UTC')
InUTC(dt) == AtOffset(dt, 0, "UTC")

Pad2(n) == <<DigitChars[(n \div 10) + 1], DigitChars[(n % 10) + 1]>>

Pad4(n) == Pad2(n \div 100) \o Pad2(n % 100)

\* DateTime.to_iso8601_string(): Z for UTC, +HH:MM or -HH:MM otherwise
ToIso8601(dt) ==
  Pad4(dt.y) \o <<"-">> \o Pad2(dt.mo) \o <<"-">> \o Pad2(dt.d) \o <<"T">>
  \o Pad2(dt.h) \o <<":">> \o Pad2(dt.mi) \o <<":">> \o Pad2(dt.sec)
  \o (IF dt.zone = "UTC" THEN <<"Z">>
      ELSE IF dt.off < 0
      THEN <<"-">> \o Pad2((0 - dt.off) \div 60) \o <<":">> \o Pad2((0 - dt.off) % 60)
      ELSE <<"+">> \o Pad2(dt.off \div 60) \o <<":">> \o Pad2(dt.off % 60))

NoDate == [ok |-> FALSE, dt |-> DateTime(0, 0, 0, 0, 0, 0, 0, "none")]

\* the ISO 8601 texts of the classification prompt, as pendulum's parser
\* reads them: YYYY-MM-DD, then optionally T or a space and HH:MM or
\* HH:MM:SS, then optionally Z or an offset +HH:MM / -HH:MM; a text without
\* offset is on the clock of tz
ParseIso(t, tzOff, tzName) ==
  LET Field(a, b) == SubSeq(t, a, b)
      DateOk ==
        /\ Len(t) >= 10
        /\ AllDigits(Field(1, 4)) /\ t[5] = "-" /\ AllDigits(Field(6, 7)) /\ t[8] = "-"
        /\ AllDigits(Field(9, 10))
        /\ NumVal(Field(6, 7)) \in 1..12
        /\ NumVal(Field(9, 10)) \in 1..DaysIn(NumVal(Field(1, 4)), NumVal(Field(6, 7)))
      HasSec == Len(t) >= 19 /\ t[17] = ":"
      TimeEnd == IF HasSec THEN 19 ELSE 16
      TimeOk ==
        /\ Len(t) >= 16
        /\ t[11] \in {"T", " "}
        /\ AllDigits(Field(12, 13)) /\ t[14] = ":" /\ AllDigits(Field(15, 16))
        /\ NumVal(Field(12, 13)) \in 0..23
        /\ NumVal(Field(15, 16)) \in 0..59
        /\ HasSec => (AllDigits(Field(18, 19)) /\ NumVal(Field(18, 19)) \in 0..59)
      Zone == SubSeq(t, TimeEnd + 1, Len(t))
      ZoneOk ==
        \/ Zone = <<>>
        \/ Zone = <<"Z">>
        \/ /\ Len(Zone) = 6
           /\ Zone[1] \in {"+", "-"}
           /\ AllDigits(SubSeq(Zone, 2, 3)) /\ Zone[4] = ":" /\ AllDigits(SubSeq(Zone, 5, 6))
           /\ NumVal(SubSeq(Zone, 2, 3)) \in 0..23
           /\ NumVal(SubSeq(Zone, 5, 6)) \in 0..59
      ZoneOff ==
        IF Zone = <<>> THEN tzOff
        ELSE IF Zone = <<"Z">> THEN 0
        ELSE (IF Zone[1] = "-" THEN 0 - 1 ELSE 1)
             * (NumVal(SubSeq(Zone, 2, 3)) * 60 + NumVal(SubSeq(Zone, 5, 6)))
      ZoneName == IF Zone = <<>> THEN tzName ELSE IF Zone = <<"Z">> THEN "UTC" ELSE "fixed"
  IN IF ~DateOk THEN NoDate
     ELSE IF Len(t) = 10
     THEN [ok |-> TRUE,
           dt |-> DateTime(NumVal(Field(1, 4)), NumVal(Field(6, 7)), NumVal(Field(9, 10)),
                           0, 0, 0, tzOff, tzName)]
     ELSE IF ~TimeOk \/ ~ZoneOk THEN NoDate
     ELSE [ok |-> TRUE,
           dt |-> DateTime(NumVal(Field(1, 4)), NumVal(Field(6, 7)), NumVal(Field(9, 10)),
                           NumVal(Field(12, 13)), NumVal(Field(15, 16)),
                           IF HasSec THEN NumVal(Field(18, 19)) ELSE 0, ZoneOff, ZoneName)]

\* pendulum.parse(v, tz='Asia/Kolkata'); not ok when it raises, as it does
\* for a value that is no string
PendulumParse(v) ==
  IF v.t # "str" THEN NoDate ELSE ParseIso(v.s, KolkataOffset, "Asia/Kolkata")

\* ------------------------------------------------------------------------
\* Learning plans: the number of weeks
\* ------------------------------------------------------------------------
W_duration_text == <<"d", "u", "r", "a", "t", "i", "o", "n", "_", "t", "e", "x", "t">>

UpperLetters == <<"A", "B", "C", "D", "E", "F", "G", "H", "I", "J", "K", "L", "M",
                  "N", "O", "P", "Q", "R", "S", "T", "U", "V", "W", "X", "Y", "Z">>

LowerLetters == <<"a", "b", "c", "d", "e", "f", "g", "h", "i", "j", "k", "l", "m",
                  "n", "o", "p", "q", "r", "s", "t", "u", "v", "w", "x", "y", "z">>

\* str.lower() of one character
LowerChar(c) ==
  IF \E i \in 1..26 : UpperLetters[i] = c
  THEN LowerLetters[CHOOSE i \in 1..26 : UpperLetters[i] = c]
  ELSE c

\* str.lower()
Lower(t) == [i \in 1..Len(t) |-> LowerChar(t[i])]

\* w in t
HasSubstring(t, w) == \E i \in 1..Len(t) : Match(t, i, w)

\* re.search(r'(\d+)\s*week', t, re.IGNORECASE): the leftmost position
\* where a run of digits, then white space, then "week" begins, and the run
\* of digits there (group 1)
WeekMatch(t) ==
  LET starts == {i \in 1..Len(t) :
                   /\ t[i] \in Digits
                   /\ Match(Lower(t), SkipWs(t, DigitsEnd(t, i)), W_week)}
      Group(i) == [matched |-> TRUE, group |-> SubSeq(t, i, DigitsEnd(t, i) - 1)]
  IN IF starts = {} THEN [matched |-> FALSE, group |-> <<>>]
     ELSE Group(CHOOSE i \in starts : \A j \in starts : i <= j)

\* a Python number n/d (d a power of ten), a str or a list
PyNum(ty, n, d) == [t |-> ty, n |-> n, d |-> d, s |-> <<>>, el |-> <<>>]

PySeq(ty, s, el) == [t |-> ty, n |-> 0, d |-> 1, s |-> s, el |-> el]

RECURSIVE Pow10(_)
Pow10(k) == IF k = 0 THEN 1 ELSE 10 * Pow10(k - 1)

\* the value of a JSON number without exponent, of true and of false
NumberOf(v) ==
  LET neg == v.s # <<>> /\ v.s[1] = "-"
      body == IF neg THEN Tail(v.s) ELSE v.s
      dot == Find(body, ".")
      whole == IF dot = 0 THEN body ELSE SubSeq(body, 1, dot - 1)
      frac == IF dot = 0 THEN <<>> ELSE SubSeq(body, dot + 1, Len(body))
      Signed(n) == IF neg THEN 0 - n ELSE n
  IN IF v.t = "bool" THEN PyNum("int", IF v.s[1] = "t" THEN 1 ELSE 0, 1)
     ELSE PyNum(v.t, Signed(NumVal(whole \o frac)), Pow10(Len(frac)))

\* duration_months * 4; not ok where Python raises TypeError
TimesFour(v) ==
  CASE v.t \in {"int", "float", "bool"} ->
         [ok |-> TRUE, v |-> [NumberOf(v) EXCEPT !.n = 4 * @]]
    [] v.t = "str" -> [ok |-> TRUE, v |-> PySeq("str", v.s \o v.s \o v.s \o v.s, <<>>)]
    [] v.t = "list" -> [ok |-> TRUE, v |-> PySeq("list", <<>>, v.el \o v.el \o v.el \o v.el)]
    [] OTHER -> [ok |-> FALSE, v |-> PyNum("int", 0, 1)]

\* handle_generate_learning_plan: num_weeks, the count handed to
\* generate_learning_milestones; not ok where the handler raises before it
\* calls the model
NumWeeks(plan_details) ==
  LET duration_text == GetOr(plan_details, W_duration_text, VStr(<<"4", " ", "w", "e", "e", "k", "s">>))
      duration_months == GetOr(plan_details, W_duration_months, VNum("int", <<"1">>))
      Raised == [ok |-> FALSE, v |-> PyNum("int", 0, 1)]
      Floor(base, week_match) ==
        IF ~week_match.matched THEN base
        ELSE IF base.v.t \notin {"int", "float"} THEN Raised
        ELSE IF NumVal(week_match.group) * base.v.d < base.v.n THEN base
        ELSE [ok |-> TRUE, v |-> PyNum("int", NumVal(week_match.group), 1)]
      Counted(base) ==
        IF ~base.ok \/ duration_text.t # "str" THEN Raised
        ELSE IF HasSubstring(Lower(duration_text.s), W_week)
        THEN Floor(base, WeekMatch(duration_text.s))
        ELSE base
  IN Counted(TimesFour(duration_months))

\* ------------------------------------------------------------------------
\* The action endpoint: state
\* ------------------------------------------------------------------------
VARIABLES
  pc,          \* where the request is: "idle", "classify", "create_item",
               \* "glm_primary", "glm_fallback", "save_plan", "gp_primary",
               \* "gp_fallback", "done"
  userId,      \* user_id, from the request body
  activeGoal,  \* active_goal, as handed to handle_generate_grocery_plan
  clients,     \* get_clients(): "none", "ready", "failed"
  ctx,         \* the user context handed to the prompt (NoContext before the fetch)
  aiContent,   \* the text of the latest model response
  parsed,      \* parsed_response / parsed_plan
  attempt,     \* which call of generate_learning_milestones is running
  milestones,  \* weekly_milestones
  llmCalls,    \* every llm.ainvoke of the request, in order
  rejects,     \* model responses that failed extraction or validation
  writes,      \* every insert issued to the store, in order
  handlers,    \* the handlers the dispatcher has called
  resp,        \* the HTTP response
  elapsed,     \* wall-clock time has passed the caller's deadline
  enrich,      \* the trigger_grocery_enrichment tasks created
  fin,         \* the argument of a function that is checked by itself
  fout,        \* and its result
  plans,       \* the rows of the learning_plans table
  ext          \* the extension request that is being served

vars == <<pc, userId, activeGoal, clients, ctx, aiContent, parsed, attempt, milestones,
          llmCalls, rejects, writes, handlers, resp, elapsed, enrich, fin, fout,
          plans, ext>>

\* no extension request
NoExt == [plan_id |-> VNull, user_id |-> VNull, given |-> VNull, additional_weeks |-> 0,
          plan |-> VNull, total_weeks |-> 0, served |-> 0]

\* rows of the user that each table holds, at most
MaxContextRows == 6

\* .limit(5) of the queries on tasks, groceries and expenses
RecentLimit == 5

\* .limit(3) of the queries on commitments and learning_plans
UpcomingLimit == 3

ContextTables ==
  {"users", "tasks", "groceries", "expenses", "commitments", "learning_plans"}

\* the context fetch of one request: the query that raises, if any, and the
\* number of rows of the user in each table (none, or more than any limit)
Fetches == [failing : ContextTables \cup {"none"}, rows : {0, MaxContextRows}]

\* the user context before it is fetched; sequences are held by their length
NoContext ==
  [status |-> "none", profile |-> FALSE, tasks |-> 0, groceries |-> 0, expenses |-> 0,
   commitments |-> 0, learning_plans |-> 0]

\* a query that returns every row it matches
LimitIgnored(rows, n) == rows

\* query.limit(n).execute().data: at most n of the rows
Limit(rows, n) == IF rows < n THEN rows ELSE n

\* handle_agent_request, "Fetch comprehensive user context": one try block
\* around the six queries; when one raises, every field is emptied
FetchContext(fetch) ==
  IF fetch.failing # "none"
  THEN [NoContext EXCEPT !.status = "empty"]
  ELSE [status |-> "fetched",
        profile |-> TRUE,
        tasks |-> Limit(fetch.rows, RecentLimit),
        groceries |-> Limit(fetch.rows, RecentLimit),
        expenses |-> Limit(fetch.rows, RecentLimit),
        commitments |-> Limit(fetch.rows, UpcomingLimit),
        learning_plans |-> Limit(fetch.rows, UpcomingLimit)]

NoResp ==
  [status |-> 0, type |-> "none", keys |-> {}, detail |-> "", count |-> 0, item |-> VNull]

\* raise HTTPException(status_code, detail): FastAPI answers {"detail": ...}
HttpError(status, detail) ==
  [status |-> status, type |-> "none", keys |-> {"detail"}, detail |-> detail, count |-> 0,
   item |-> VNull]

\* JSONResponse(status_code, content): type is content["type"], keys the
\* keys of content, item is content["item"] where a claim needs it
JsonResp(status, type, keys, detail) ==
  [status |-> status, type |-> type, keys |-> keys, detail |-> detail, count |-> 0,
   item |-> VNull]

\* request bodies that are JSON objects: userInput and userId present or
\* not, plan_details absent or with a topic, the explicit intent, activeGoal
\* absent or with an id
ObjectBodies ==
  [shape : {"object"},
   userInput : {<<>>, <<"h", "i">>},
   userId : {<<>>, <<"u", "1">>},
   plan_details : {VNull, VDict(<<[k |-> W_topic, v |-> VStr(<<"a">>)]>>)},
   intent : {"", "generate_grocery_plan"},
   activeGoal : {VNull, VDict(<<[k |-> W_id, v |-> VStr(<<"g", "1">>)]>>)}]

\* a request body that is JSON but no object ([]): it has none of the fields
ArrayBody ==
  [shape |-> "array", userInput |-> <<>>, userId |-> <<>>, plan_details |-> VNull,
   intent |-> "", activeGoal |-> VNull]

\* what request.json() can return
Bodies == ObjectBodies \cup {ArrayBody}

\* no request has arrived
Idle ==
  /\ pc = "idle"
  /\ userId = <<>>
  /\ activeGoal = VNull
  /\ clients = "none"
  /\ ctx = NoContext
  /\ aiContent = <<>>
  /\ parsed = VNull
  /\ attempt = 0
  /\ milestones = VNull
  /\ llmCalls = <<>>
  /\ rejects = <<>>
  /\ writes = <<>>
  /\ handlers = {}
  /\ resp = NoResp
  /\ elapsed = FALSE
  /\ enrich = <<>>
  /\ plans = <<>>
  /\ ext = NoExt

Init ==
  /\ Idle
  /\ fin = <<>>
  /\ fout = <<>>

\* one llm.ainvoke: the prompt, the client, primary call or the call of the
\* except branch, whether it raised; late: a fallback hop that starts when
\* the deadline has already passed
LlmCall(prompt, llm, hop, raised) ==
  [prompt |-> prompt, llm |-> llm, hop |-> hop, failed |-> raised,
   late |-> (hop = "fallback" /\ elapsed)]

\* a model response the code refused: after how many calls, and why
Reject(kind) == [call |-> Len(llmCalls) + 1, kind |-> kind]

\* handle_generate_learning_plan up to its first model call: where the
\* handler goes for the parsed response p
LearningPlanStart(p) ==
  LET pd == GetOr(p, W_plan_details, VDict(<<>>))
      Started(num_weeks) ==
        IF pd.t # "dict" \/ ~num_weeks.ok
        THEN [pc |-> "done", resp |-> HttpError(500, "Failed to generate learning plan"), attempt |-> 0]
        ELSE [pc |-> "glm_primary", resp |-> NoResp, attempt |-> 1]
  IN Started(NumWeeks(pd))

\* handle_generate_grocery_plan up to its first model call
GroceryPlanStart(body) ==
  IF Truthy(body.activeGoal) /\ body.activeGoal.t # "dict"
  THEN [pc |-> "done", resp |-> HttpError(500, "Failed to generate grocery plan")]
  ELSE [pc |-> "gp_primary", resp |-> NoResp]

\* a dispatcher without the direct route
DirectRoutingNever(plan_details) == FALSE

\* handle_agent_request: if plan_details and plan_details.get("topic")
DirectRouting(plan_details) ==
  Truthy(plan_details) /\ Truthy(Get(plan_details, W_topic))

\* handle_agent_request from the request body to the first model call: the
\* check of userInput and userId, the clients, the direct route, the
\* context fetch (fetch tells which query raises and how many rows each
\* table holds) and the explicit intent
Receive(body, clientsOk, fetch) ==
  /\ pc = "idle"
  /\ UNCHANGED <<fin, fout, plans, ext>>
  /\ userId' = body.userId
  /\ UNCHANGED <<aiContent, milestones, llmCalls, rejects, writes, elapsed, enrich>>
  /\ IF body.shape # "object"
     THEN \* body.get raises AttributeError, caught by the outer except
          /\ pc' = "done"
          /\ resp' = JsonResp(500, "error", {"type", "error"}, "An unexpected error occurred")
          /\ UNCHANGED <<clients, ctx, parsed, attempt, handlers, activeGoal>>
     ELSE IF body.userInput = <<>> \/ body.userId = <<>>
     THEN /\ pc' = "done"
          /\ resp' = HttpError(400, "Missing userInput or userId.")
          /\ UNCHANGED <<clients, ctx, parsed, attempt, handlers, activeGoal>>
     ELSE IF ~clientsOk
     THEN /\ pc' = "done"
          /\ resp' = HttpError(500, "Server configuration error")
          /\ clients' = "failed"
          /\ UNCHANGED <<ctx, parsed, attempt, handlers, activeGoal>>
     ELSE IF Truthy(body.plan_details) /\ body.plan_details.t # "dict"
     THEN /\ pc' = "done"
          /\ resp' = JsonResp(500, "error", {"type", "error"}, "An unexpected error occurred")
          /\ clients' = "ready"
          /\ UNCHANGED <<ctx, parsed, attempt, handlers, activeGoal>>
     ELSE IF DirectRouting(body.plan_details)
     THEN LET synth == VDict(<<[k |-> W_intent, v |-> VStr(W_generate_learning_plan)],
                               [k |-> W_plan_details, v |-> body.plan_details]>>)
              start == LearningPlanStart(synth)
          IN /\ parsed' = synth
             /\ handlers' = {"handle_generate_learning_plan"}
             /\ pc' = start.pc
             /\ resp' = start.resp
             /\ attempt' = start.attempt
             /\ clients' = "ready"
             /\ UNCHANGED <<ctx, activeGoal>>
     ELSE /\ clients' = "ready"
          /\ ctx' = FetchContext(fetch)
          /\ UNCHANGED <<parsed, attempt>>
          /\ IF body.intent = "generate_grocery_plan"
             THEN /\ handlers' = {"handle_generate_grocery_plan"}
                  /\ activeGoal' = body.activeGoal
                  /\ pc' = GroceryPlanStart(body).pc
                  /\ resp' = GroceryPlanStart(body).resp
             ELSE /\ pc' = "classify"
                  /\ UNCHANGED <<handlers, resp, activeGoal>>

\* a dispatcher that answers whatever it does not recognise
RouteLenient(intent) ==
  IF intent.t = "str" /\ intent.s = W_create_item THEN "create_item"
  ELSE IF intent.t = "str" /\ intent.s = W_generate_learning_plan THEN "generate_learning_plan"
  ELSE "answer_question"

\* the if / elif chain on parsed_response.get("intent")
Route(intent) ==
  IF intent.t = "str" /\ intent.s = W_create_item THEN "create_item"
  ELSE IF intent.t = "str" /\ intent.s = W_generate_learning_plan THEN "generate_learning_plan"
  ELSE IF intent.t = "str" /\ intent.s = W_answer_question THEN "answer_question"
  ELSE "unknown"

\* handle_agent_request: the classification call, the recovery of its JSON
\* and the dispatch on the intent
Classify(raised, text, tick) ==
  /\ pc = "classify"
  /\ UNCHANGED <<fin, fout, plans, ext>>
  /\ llmCalls' = Append(llmCalls, LlmCall("intent", "llm", "primary", raised))
  /\ elapsed' = (elapsed \/ tick)
  /\ aiContent' = text
  /\ UNCHANGED <<userId, activeGoal, clients, ctx, milestones, writes, enrich>>
  /\ LET Dispatch(ex, route, start) ==
           IF raised \/ ex.status # "ok"
           THEN /\ pc' = "done"
                /\ resp' = JsonResp(500, "error", {"type", "error"}, "AI processing failed")
                /\ rejects' = IF raised THEN rejects ELSE Append(rejects, Reject(ex.status))
                /\ UNCHANGED <<parsed, attempt, handlers>>
           ELSE /\ parsed' = ex.v
                /\ UNCHANGED rejects
                /\ CASE route = "create_item" ->
                          /\ pc' = "create_item"
                          /\ handlers' = {"handle_create_item"}
                          /\ UNCHANGED <<resp, attempt>>
                     [] route = "generate_learning_plan" ->
                          /\ pc' = start.pc
                          /\ resp' = start.resp
                          /\ attempt' = start.attempt
                          /\ handlers' = {"handle_generate_learning_plan"}
                     [] route = "answer_question" ->
                          /\ pc' = "done"
                          /\ resp' = JsonResp(200, "answer", {"type", "text"}, "")
                          /\ UNCHANGED <<attempt, handlers>>
                     [] OTHER ->
                          /\ pc' = "done"
                          /\ resp' = HttpError(400, "Unknown intent")
                          /\ UNCHANGED <<attempt, handlers>>
         Extracted(ex) == Dispatch(ex, Route(Get(ex.v, W_intent)), LearningPlanStart(ex.v))
     IN Extracted(ExtractIntentObject(text))

\* the if / elif chain of handle_create_item on the item type; "" when the
\* type is none of the seven
TableOf(itemType) ==
  IF itemType.t # "str" THEN ""
  ELSE CASE itemType.s = W_task -> "tasks"
         [] itemType.s = W_grocery -> "groceries"
         [] itemType.s = W_expense -> "expenses"
         [] itemType.s = W_goal -> "goals"
         [] itemType.s = W_commitment -> "commitments"
         [] itemType.s = W_reminder -> "reminders"
         [] itemType.s = W_notification -> "notifications"
         [] OTHER -> ""

\* supabase.from_(table).insert(rows).execute()
Insert(table, rows, ok) == [table |-> table, rows |-> rows, ok |-> ok]

\* the rows the store returns for an insert: the rows with their ids
Created(rows, base) ==
  [i \in 1..Len(rows) |-> Put(rows[i], W_id, VStr(<<"r", "o", "w">> \o Pad(base + i)))]

\* handle_create_item, "Handle date/time conversions for different item
\* types using Pendulum": the record after the branch of its item type
NormalizeDates(itemType, data) ==
  LET Is(w) == itemType.t = "str" /\ itemType.s = w
      Utc(p) == VStr(ToIso8601(InUTC(p.dt)))
      \* due_date_utc, due_date_local, timezone and due_date from one parse
      Paired(d, p) ==
        Put(Put(Put(Put(d, W_due_date_utc, Utc(p)),
                    W_due_date_local, VStr(ToIso8601(p.dt))),
                W_timezone, VStr(W_Asia_Kolkata)),
            W_due_date, Utc(p))
      TaskDue(p) ==
        IF p.ok THEN Del(Paired(data, p), W_due_absolute_iso)
        ELSE Del(data, W_due_absolute_iso)
      ReminderDue(p) == IF p.ok THEN Paired(data, p) ELSE data
      Replaced(d, field, p) == IF p.ok THEN Put(d, field, Utc(p)) ELSE d
      InPlace(d, field) ==
        IF Truthy(Get(d, field)) THEN Replaced(d, field, PendulumParse(Get(d, field)))
        ELSE d
  IN IF Is(W_task) /\ Truthy(Get(data, W_due_absolute_iso))
     THEN TaskDue(PendulumParse(Get(data, W_due_absolute_iso)))
     ELSE IF Is(W_commitment) THEN InPlace(InPlace(data, W_start_time), W_end_time)
     ELSE IF Is(W_reminder) /\ Truthy(Get(data, W_due_date))
     THEN ReminderDue(PendulumParse(Get(data, W_due_date)))
     ELSE IF Is(W_goal) /\ Truthy(Get(data, W_deadline)) THEN InPlace(data, W_deadline)
     ELSE data

\* a response whose item carries nutrition values, as the record has them
\* after enrich_grocery_item updated it
CreationResponseEnriched(created_item) ==
  [JsonResp(200, "creation_success", {"type", "item", "message"}, "")
   EXCEPT !.item = Put(created_item, W_calories, VNum("float", <<"1", ".", "0">>))]

\* handle_create_item: return JSONResponse(status_code=200, content={"type":
\* "creation_success", "item": created_item, ...})
CreationResponse(created_item) ==
  [JsonResp(200, "creation_success", {"type", "item", "message"}, "")
   EXCEPT !.item = created_item]

\* a handler that hands every created record to the enrichment
NeedsEnrichmentAlways(itemType) == TRUE

\* handle_create_item: if item_type == "grocery"
NeedsEnrichment(itemType) == itemType.t = "str" /\ itemType.s = W_grocery

\* one grocery record handed to asyncio.create_task(trigger_grocery_enrichment(item))
EnrichTask(item) == [item |-> item, state |-> "pending", answer |-> "none"]

\* handle_create_item
CreateItem(dbOk) ==
  /\ pc = "create_item"
  /\ UNCHANGED <<fin, fout, plans, ext>>
  /\ pc' = "done"
  /\ UNCHANGED <<userId, activeGoal, clients, ctx, aiContent, parsed, attempt, milestones,
                 llmCalls, rejects, handlers, elapsed>>
  /\ LET itemType == Get(parsed, W_type)
         itemData == GetOr(parsed, W_data, VDict(<<>>))
         table == TableOf(itemType)
         Inserted(row, created) ==
           /\ writes' = Append(writes, Insert(table, <<row>>, dbOk))
           /\ IF dbOk
              THEN /\ resp' = CreationResponse(created[1])
                   /\ enrich' = IF NeedsEnrichment(itemType)
                                THEN Append(enrich, EnrichTask(created[1]))
                                ELSE enrich
              ELSE /\ resp' = HttpError(500, "Failed to process item creation")
                   /\ UNCHANGED enrich
         Normalized(row) == Inserted(row, Created(<<row>>, Len(writes)))
     IN IF itemData.t # "dict" \/ table = ""
        THEN /\ resp' = HttpError(500, "Failed to process item creation")
             /\ UNCHANGED <<writes, enrich>>
        ELSE Normalized(NormalizeDates(itemType, Put(itemData, W_user_id, VStr(userId))))

\* a handler that saves whatever it has when an attempt fails
AttemptFailedSavesAnyway ==
  /\ pc' = "save_plan"
  /\ UNCHANGED <<attempt, resp>>

\* generate_learning_milestones fails: handle_generate_learning_plan calls
\* it a second time with the other client, and gives up after that
AttemptFailed ==
  IF attempt = 1
  THEN /\ attempt' = 2
       /\ pc' = "glm_primary"
       /\ UNCHANGED resp
  ELSE /\ pc' = "done"
       /\ resp' = JsonResp(500, "error", {"type", "detail", "error"},
                           "All milestone generation attempts failed")
       /\ UNCHANGED attempt

\* generate_learning_milestones after a model response: clean, parse,
\* validate
MilestoneOutcome(text) ==
  LET Returned(r) ==
        IF r.verdict.ok
        THEN /\ milestones' = r.v
             /\ pc' = "save_plan"
             /\ UNCHANGED <<rejects, attempt, resp>>
        ELSE /\ rejects' = Append(rejects, Reject(r.verdict.kind))
             /\ AttemptFailed
             /\ UNCHANGED milestones
  IN Returned(ParseMilestones(text))

\* the client handle_generate_learning_plan hands to the running attempt
AttemptLlm == IF attempt = 1 THEN "specialist_llm" ELSE "llm"

\* generate_learning_milestones: response = await llm.ainvoke(prompt)
GlmPrimary(raised, text, tick) ==
  /\ pc = "glm_primary"
  /\ UNCHANGED <<fin, fout, plans, ext>>
  /\ llmCalls' = Append(llmCalls, LlmCall("milestones", AttemptLlm, "primary", raised))
  /\ elapsed' = (elapsed \/ tick)
  /\ UNCHANGED <<userId, activeGoal, clients, ctx, parsed, writes, handlers, enrich>>
  /\ IF raised
     THEN /\ pc' = "glm_fallback"
          /\ UNCHANGED <<aiContent, milestones, rejects, attempt, resp>>
     ELSE /\ aiContent' = text
          /\ MilestoneOutcome(text)

\* generate_learning_milestones: the call in the except branch,
\* llm.ainvoke(prompt, max_tokens=4000)
GlmFallback(raised, text, tick) ==
  /\ pc = "glm_fallback"
  /\ UNCHANGED <<fin, fout, plans, ext>>
  /\ llmCalls' = Append(llmCalls, LlmCall("milestones", AttemptLlm, "fallback", raised))
  /\ elapsed' = (elapsed \/ tick)
  /\ UNCHANGED <<userId, activeGoal, clients, ctx, parsed, writes, handlers, enrich>>
  /\ IF raised
     THEN /\ AttemptFailed
          /\ UNCHANGED <<aiContent, milestones, rejects>>
     ELSE /\ aiContent' = text
          /\ MilestoneOutcome(text)

Member(key, val) == [k |-> key, v |-> val]

\* pendulum.now('Asia/Kolkata') at the moments the tasks are made: late
\* on the day before the last of a month, and early on the day before a
\* leap day
Nows == {DateTime(2025, 8, 30, 23, 10, 0, KolkataOffset, "Asia/Kolkata"),
         DateTime(2024, 2, 28, 3, 0, 5, KolkataOffset, "Asia/Kolkata")}

\* create_first_week_tasks: the task rows for milestones[0]["tasks"]
FirstWeekTasks(user, ms, now_ist) ==
  IF ms.el = <<>> THEN <<>>
  ELSE LET tasks == GetOr(ms.el[1], W_tasks, VList(<<>>)).el
           Due(due_date) ==
             <<Member(W_due_date_utc, VStr(ToIso8601(InUTC(due_date)))),
               Member(W_due_date_local, VStr(ToIso8601(due_date))),
               Member(W_timezone, VStr(W_Asia_Kolkata))>>
       IN [i \in 1..Len(tasks) |->
             VDict(<<Member(W_user_id, VStr(user)),
                     Member(W_title, tasks[i]),
                     Member(W_description,
                            VStr(<<"P", "a", "r", "t", " ", "o", "f", " ", "l", "e", "a", "r", "n", "i", "n", "g", " ",
                                   "p", "l", "a", "n", ":", " ">>
                                 \o GetOr(ms.el[1], W_title, VStr(<<"W", "e", "e", "k", " ", "1">>)).s)),
                     Member(W_priority, VNum("int", <<"2">>)),
                     Member(W_estimate, VNum("int", <<"4", "5">>))>>
                   \o Due(AddDays(now_ist, i))
                   \o <<Member(W_tags, VList(<<VStr(W_learning), VStr(W_auto_generated)>>)),
                        Member(W_status, VStr(W_Inbox))>>)]

\* handle_generate_learning_plan after the milestones are there: the plan
\* insert, then create_first_week_tasks, then the response
SavePlan(planOk, tasksOk, now_ist) ==
  /\ pc = "save_plan"
  /\ UNCHANGED <<fin, fout, ext>>
  /\ pc' = "done"
  /\ UNCHANGED <<userId, activeGoal, clients, ctx, aiContent, parsed, attempt, milestones,
                 llmCalls, rejects, handlers, elapsed, enrich>>
  /\ LET pd == GetOr(parsed, W_plan_details, VDict(<<>>))
         plan == VDict(<<Member(W_user_id, VStr(userId)),
                         Member(W_topic, GetOr(pd, W_topic, VStr(<<"U", "n", "k", "n", "o", "w", "n", " ", "T", "o", "p", "i", "c">>))),
                         Member(W_duration_months, GetOr(pd, W_duration_months, VNum("int", <<"1">>))),
                         Member(W_weekly_milestones, milestones)>>)
         tasks == FirstWeekTasks(userId, milestones, now_ist)
         planWrite == Insert("learning_plans", <<plan>>, planOk)
     IN IF ~planOk
        THEN /\ writes' = Append(writes, planWrite)
             /\ resp' = HttpError(500, "Failed to generate learning plan")
             /\ UNCHANGED plans
        ELSE /\ plans' = plans \o Created(<<plan>>, Len(writes))
             /\ writes' = IF tasks = <<>> THEN Append(writes, planWrite)
                          ELSE writes \o <<planWrite, Insert("tasks", tasks, tasksOk)>>
             /\ resp' = [JsonResp(200, "plan_created",
                                  {"type", "plan", "message", "plan_id", "created_tasks_count"}, "")
                         EXCEPT !.count = IF tasksOk THEN Len(tasks) ELSE 0]

\* records that never carry a goal
GoalIdForDbNull(goal) == VNull

\* handle_generate_grocery_plan: goal_id_for_db
GoalIdForDb(goal) ==
  IF Truthy(goal) /\ Truthy(Get(goal, W_id)) THEN Get(goal, W_id) ELSE VNull

\* handle_generate_grocery_plan: items_to_insert
GroceryRows(user, goal, items) ==
  [i \in 1..Len(items) |->
     VDict(<<Member(W_user_id, VStr(user)),
             Member(W_item_name, GetOr(items[i], W_item_name,
                      VStr(<<"U", "n", "k", "n", "o", "w", "n", " ", "I", "t", "e", "m">>))),
             Member(W_quantity, GetOr(items[i], W_quantity, VNum("int", <<"1">>))),
             Member(W_unit, GetOr(items[i], W_unit, VStr(W_piece))),
             Member(W_price, GetOr(items[i], W_estimated_price, VNum("int", <<"0">>))),
             Member(W_bought, VBool(<<"f", "a", "l", "s", "e">>)),
             Member(W_goal_id, GoalIdForDb(goal))>>)]

\* handle_generate_grocery_plan after a model response: the recovery of the
\* JSON, the batch insert, the enrichment tasks and the response
GroceryOutcome(text, dbOk) ==
  LET Saved(rows, created, summable) ==
        /\ writes' = Append(writes, Insert("groceries", rows, dbOk))
        /\ enrich' = IF dbOk
                     THEN enrich \o [i \in 1..Len(created) |-> EnrichTask(created[i])]
                     ELSE enrich
        /\ resp' = IF dbOk /\ summable
                   THEN JsonResp(200, "grocery_plan_created",
                                 {"type", "message", "items_added",
                                  "estimated_total_cost", "goal_type", "items"}, "")
                   ELSE HttpError(500, "Failed to generate grocery plan")
      Prepared(items, rows) ==
        IF ~Truthy(items)
           \/ ~(items.t = "list" /\ \A i \in 1..Len(items.el) : items.el[i].t = "dict")
        THEN /\ resp' = HttpError(500, "Failed to generate grocery plan")
             /\ UNCHANGED <<writes, enrich>>
        ELSE Saved(rows, Created(rows, Len(writes)),
                   \A i \in 1..Len(items.el) :
                     GetOr(items.el[i], W_estimated_price, VNum("int", <<"0">>)).t
                       \in {"int", "float", "bool"})
      Listed(items) == Prepared(items, GroceryRows(userId, activeGoal, items.el))
      Extracted(ex) ==
        IF ex.status # "ok"
        THEN /\ rejects' = Append(rejects, Reject(ex.status))
             /\ resp' = HttpError(500, "Failed to generate grocery plan")
             /\ UNCHANGED <<parsed, writes, enrich>>
        ELSE /\ parsed' = ex.v
             /\ UNCHANGED rejects
             /\ Listed(GetOr(ex.v, W_grocery_plan, VList(<<>>)))
  IN /\ pc' = "done"
     /\ aiContent' = text
     /\ Extracted(ExtractGroceryObject(text))

\* handle_generate_grocery_plan: response = await specialist_llm.ainvoke(...)
GpPrimary(raised, text, tick, dbOk) ==
  /\ pc = "gp_primary"
  /\ UNCHANGED <<fin, fout, plans, ext>>
  /\ llmCalls' = Append(llmCalls, LlmCall("grocery", "specialist_llm", "primary", raised))
  /\ elapsed' = (elapsed \/ tick)
  /\ UNCHANGED <<userId, activeGoal, clients, ctx, attempt, milestones, handlers>>
  /\ IF raised
     THEN /\ pc' = "gp_fallback"
          /\ UNCHANGED <<aiContent, parsed, rejects, writes, enrich, resp>>
     ELSE GroceryOutcome(text, dbOk)

\* handle_generate_grocery_plan: the call in the except branch,
\* llm.ainvoke(specialist_prompt)
GpFallback(raised, text, tick, dbOk) ==
  /\ pc = "gp_fallback"
  /\ UNCHANGED <<fin, fout, plans, ext>>
  /\ llmCalls' = Append(llmCalls, LlmCall("grocery", "llm", "fallback", raised))
  /\ elapsed' = (elapsed \/ tick)
  /\ UNCHANGED <<userId, activeGoal, clients, ctx, attempt, milestones, handlers>>
  /\ IF raised
     THEN /\ pc' = "done"
          /\ resp' = HttpError(500, "Failed to generate grocery plan")
          /\ UNCHANGED <<aiContent, parsed, rejects, writes, enrich>>
     ELSE GroceryOutcome(text, dbOk)

\* trigger_grocery_enrichment: json={"grocery_item": grocery_item}
EnrichRequest(grocery_item) == VDict(<<[k |-> W_grocery_item, v |-> grocery_item]>>)

\* enrich_grocery_item: missing_fields, in the order the code appends them
MissingFields(body) ==
  LET Missing(name) ==
        IF name = W_quantity THEN Get(body, name).t = "null"
        ELSE ~Truthy(Get(body, name))
  IN SelectSeq(<<W_item_name, W_quantity, W_unit, W_grocery_id, W_user_id>>, Missing)

\* enrich_grocery_item up to its validation: 400 "Missing required fields"
\* or the request goes on to the nutrition lookup
EnrichAnswer(body) ==
  IF body.t # "dict" THEN "error"
  ELSE IF MissingFields(body) # <<>> THEN "missing required fields"
  ELSE "accepted"

\* trigger_grocery_enrichment, run by the event loop: the POST is sent and
\* answered, or it raises (connection error, or no answer within timeout=5.0)
\* and the exception is logged; a task that never returns stays pending
EnrichRun(i, outcome) ==
  /\ i \in 1..Len(enrich)
  /\ enrich[i].state = "pending"
  /\ UNCHANGED <<fin, fout, plans, ext>>
  /\ enrich' = [enrich EXCEPT ![i] =
                  [item |-> @.item, state |-> outcome,
                   answer |-> IF outcome = "sent"
                              THEN EnrichAnswer(EnrichRequest(@.item))
                              ELSE "none"]]
  /\ UNCHANGED <<pc, userId, activeGoal, clients, ctx, aiContent, parsed, attempt, milestones,
                 llmCalls, rejects, writes, handlers, resp, elapsed>>

\* the outcomes of a model call: it raises, or it answers with a text
Next ==
  \/ \E body \in Bodies, clientsOk \in BOOLEAN, fetch \in Fetches :
       Receive(body, clientsOk, fetch)
  \/ \E raised \in BOOLEAN, tick \in BOOLEAN :
       \E text \in (IF raised THEN {<<>>} ELSE IntentReplies) :
         Classify(raised, text, tick)
  \/ \E dbOk \in BOOLEAN : CreateItem(dbOk)
  \/ \E raised \in BOOLEAN, tick \in BOOLEAN :
       \E text \in (IF raised THEN {<<>>} ELSE MilestoneReplies) :
         GlmPrimary(raised, text, tick)
  \/ \E raised \in BOOLEAN, tick \in BOOLEAN :
       \E text \in (IF raised THEN {<<>>} ELSE MilestoneReplies) :
         GlmFallback(raised, text, tick)
  \/ \E planOk \in BOOLEAN, tasksOk \in BOOLEAN, now_ist \in Nows :
       SavePlan(planOk, tasksOk, now_ist)
  \/ \E raised \in BOOLEAN, tick \in BOOLEAN, dbOk \in BOOLEAN :
       \E text \in (IF raised THEN {<<>>} ELSE GroceryReplies) :
         GpPrimary(raised, text, tick, dbOk)
  \/ \E raised \in BOOLEAN, tick \in BOOLEAN, dbOk \in BOOLEAN :
       \E text \in (IF raised THEN {<<>>} ELSE GroceryReplies) :
         GpFallback(raised, text, tick, dbOk)
  \/ \E i \in 1..Len(enrich), outcome \in {"sent", "failed", "timeout"} :
       EnrichRun(i, outcome)

Spec == Init /\ [][Next]_vars

\* ------------------------------------------------------------------------
\* Properties of the action endpoint
\* ------------------------------------------------------------------------

\* the request went through intent classification and its JSON was recovered
Classified == llmCalls # <<>> /\ llmCalls[1].prompt = "intent" /\ parsed # VNull

IntentIs(word) == Get(parsed, W_intent).t = "str" /\ Get(parsed, W_intent).s = word

RecognizedIntents ==
  {W_create_item, W_generate_learning_plan, W_analyze_data, W_answer_question}

IntentRecognized == \E word \in RecognizedIntents : IntentIs(word)

\* C1: a parsed model response whose intent is missing or is none of
\* create_item, generate_learning_plan, analyze_data, answer_question ends
\* the request in a 4xx "Unknown intent" error, with no handler called and
\* no insert issued
C1_UnknownIntentRejected ==
  (Classified /\ ~IntentRecognized) =>
    /\ pc = "done"
    /\ resp.status \in 400..499
    /\ resp.detail = "Unknown intent"
    /\ handlers = {}
    /\ writes = <<>>

C1_Witness ==
  /\ Classified
  /\ ~IntentRecognized
  /\ Get(parsed, W_intent).t = "str"
  /\ pc = "done"
  /\ resp.status = 400

\* C2: a parsed model response with intent analyze_data gets a pass-through
\* response that is no error, with no insert and no further model call
C2_AnalyzeDataPassesThrough ==
  (Classified /\ IntentIs(W_analyze_data)) =>
    /\ pc = "done"
    /\ resp.status = 200
    /\ writes = <<>>
    /\ Len(llmCalls) = 1

\* the four envelopes of the interface, each with the keys of its body
Envelopes == {
  [type |-> "creation_success", keys |-> {"type", "item", "message"}],
  [type |-> "plan_created",
   keys |-> {"type", "plan", "message", "plan_id", "created_tasks_count"}],
  [type |-> "answer", keys |-> {"type", "text"}],
  [type |-> "error", keys |-> {"type", "error"}] }

\* C3: every response of the action endpoint is one of the four envelopes,
\* and every failure is the error envelope
C3_ResponseIsEnvelope ==
  pc = "done" =>
    /\ \E e \in Envelopes : resp.type = e.type /\ resp.keys = e.keys
    /\ resp.status # 200 => resp.type = "error"

\* C4: within a request the model service is called at most twice with the
\* same prompt
C4_AtMostTwoCallsPerPrompt ==
  \A p \in {"intent", "milestones", "grocery"} :
    Cardinality({i \in 1..Len(llmCalls) : llmCalls[i].prompt = p}) <= 2

\* C5: once the answer to a learning-plan prompt failed extraction or
\* validation, the model is not called again for the request
C5_RejectedPlanIsNotRetried ==
  \A i \in 1..Len(rejects) :
    llmCalls[rejects[i].call].prompt = "milestones" => Len(llmCalls) = rejects[i].call

\* C6: every primary call that raised is followed by a fallback call with the
\* same prompt before the request ends, and every fallback call follows a
\* primary call that raised
C6_FallbackFollowsPrimaryFailure ==
  /\ pc = "done" =>
       \A i \in 1..Len(llmCalls) :
         (llmCalls[i].hop = "primary" /\ llmCalls[i].failed) =>
           /\ i < Len(llmCalls)
           /\ llmCalls[i + 1].hop = "fallback"
           /\ llmCalls[i + 1].prompt = llmCalls[i].prompt
  /\ \A i \in 1..Len(llmCalls) :
       llmCalls[i].hop = "fallback" =>
         /\ i > 1
         /\ llmCalls[i - 1].hop = "primary"
         /\ llmCalls[i - 1].failed

\* C7: no fallback hop starts once the deadline has passed
C7_NoFallbackPastDeadline ==
  \A i \in 1..Len(llmCalls) : ~llmCalls[i].late

\* the failures the extractor is to report: no opening brace; or the text
\* from the first brace on does not parse, and then either the brace depth
\* never comes back to zero or the balanced part does not parse
NoOpeningBrace(t) == Find(Strip(t), "{") = 0

FromFirstBrace(t) == SubSeq(Strip(t), Find(Strip(t), "{"), Len(Strip(t)))

DepthNeverZero(t) ==
  \A i \in 1..Len(FromFirstBrace(t)) : Depth(FromFirstBrace(t), i) # 0

BalancedPart(t) ==
  LET jc == FromFirstBrace(t)
  IN SubSeq(jc, 1, CHOOSE i \in 1..Len(jc) :
                     Depth(jc, i) = 0 /\ \A k \in 1..(i - 1) : Depth(jc, k) # 0)

MustFailExtraction(t) ==
  \/ NoOpeningBrace(t)
  \/ /\ ~JsonLoads(FromFirstBrace(t)).ok
     /\ (DepthNeverZero(t) \/ ~JsonLoads(BalancedPart(t)).ok)

\* the latest model call answered the classification or the grocery prompt
ObjectAnswered ==
  /\ llmCalls # <<>>
  /\ llmCalls[Len(llmCalls)].prompt \in {"intent", "grocery"}
  /\ ~llmCalls[Len(llmCalls)].failed

\* C9: when the text of the model has no opening brace, or its braces never
\* balance, or the balanced part does not parse, the request fails: there is
\* no parsed value and no insert, on the classification path and on the
\* grocery-plan path
C9_ExtractionAllOrNothing ==
  (ObjectAnswered /\ MustFailExtraction(aiContent)) =>
    /\ pc = "done"
    /\ resp.status >= 400
    /\ parsed = VNull
    /\ \A i \in 1..Len(writes) : ~writes[i].ok

\* ------------------------------------------------------------------------
\* The extractors by themselves: texts prefix + J + suffix
\* ------------------------------------------------------------------------
pipeline == <<pc, userId, activeGoal, clients, ctx, aiContent, parsed, attempt,
              milestones, llmCalls, rejects, writes, handlers, resp, elapsed, enrich,
              plans, ext>>

A1 == TMember(<<"a">>, <<"1">>)

\* JSON objects: flat, nested, with a brace or a bracket inside a string
ObjectJs == {
  TObj(<<A1>>),
  TObj(<<>>),
  TObj(<<TMember(<<"a">>, TObj(<<A1>>))>>),
  TObj(<<TMember(<<"a">>, TArr(<<<<"1">>>>))>>),
  TObj(<<TMember(<<"a">>, TStr(<<"}">>))>>),
  TObj(<<TMember(<<"a">>, TStr(<<"{">>))>>),
  TObj(<<TMember(<<"a">>, TStr(<<"]">>))>>) }

\* JSON arrays, likewise
ArrayJs == {
  TArr(<<<<"1">>>>),
  TArr(<<>>),
  TArr(<<TArr(<<<<"1">>>>)>>),
  TArr(<<TObj(<<A1>>)>>),
  TArr(<<TStr(<<"]">>)>>),
  TArr(<<TStr(<<"[">>)>>),
  TArr(<<TStr(<<"}">>)>>) }

\* prefixes without an opening brace or bracket: none, prose, fence markers
ExtractPrefixes == Prefixes \cup {Fence \o <<"\n">>, <<"\n">>}

ExtractSuffixes == Suffixes \cup {<<"\n">>}

ExtractInputs ==
  [kind : {"intent", "grocery"}, prefix : ExtractPrefixes, j : ObjectJs, suffix : ExtractSuffixes]
  \cup [kind : {"milestones"}, prefix : ExtractPrefixes, j : ArrayJs, suffix : ExtractSuffixes]

InitExtract ==
  /\ Idle
  /\ fin \in ExtractInputs
  /\ fout = ExtractResult("none", VNull)

\* the extractor of kind applied to the text
ExtractStep(kind, result) ==
  /\ fin.kind = kind
  /\ fout.status = "none"
  /\ fout' = result
  /\ UNCHANGED <<fin, pipeline>>

ExtractIntentStep ==
  ExtractStep("intent", ExtractIntentObject(fin.prefix \o fin.j \o fin.suffix))

ExtractGroceryStep ==
  ExtractStep("grocery", ExtractGroceryObject(fin.prefix \o fin.j \o fin.suffix))

ExtractMilestonesStep ==
  ExtractStep("milestones", ExtractMilestoneArray(fin.prefix \o fin.j \o fin.suffix))

NextExtract == ExtractIntentStep \/ ExtractGroceryStep \/ ExtractMilestonesStep

SpecExtract == InitExtract /\ [][NextExtract]_vars

\* C8: from prefix + J + suffix, J a JSON value of the expected container
\* kind and the prefix without an opening bracket of that kind, each
\* extractor returns exactly the parse of J
C8_ExtractReturnsEmbeddedJson ==
  fout.status # "none" => (fout.status = "ok" /\ fout.v = JsonLoads(fin.j).v)

\* ------------------------------------------------------------------------
\* The milestone validator by itself: arrays built from well-formed
\* milestones by a few edits
\* ------------------------------------------------------------------------
MaxMilestones == 2
MaxEdits == 2

NumFields == Len(RequiredFields)

\* what a field can hold: nothing, or a JSON value of one of the seven types
FieldTags == {"absent", "int", "float", "str", "list", "dict", "bool", "null"}

\* what an element can be instead of an object
ElementTags == {"dict", "int", "str", "list", "null"}

\* a JSON value of the type
Sample(tag) ==
  CASE tag = "int" -> VNum("int", <<"3">>)
    [] tag = "float" -> VNum("float", <<"1", ".", "5">>)
    [] tag = "str" -> VStr(<<"a">>)
    [] tag = "list" -> VList(<<VStr(<<"b">>)>>)
    [] tag = "dict" -> VDict(<<>>)
    [] tag = "bool" -> VBool(<<"t", "r", "u", "e">>)
    [] OTHER -> VNull

\* a milestone as the model returns it, estimated_hours an int or a float
WellFormedShapes ==
  { [whole |-> "dict",
     fields |-> [k \in 1..NumFields |->
                   IF k = NumFields THEN hours
                   ELSE CHOOSE ty \in RequiredFields[k].ty : TRUE]] :
    hours \in {"int", "float"} }

RECURSIVE ShapeMembers(_, _)
ShapeMembers(fields, k) ==
  IF k > NumFields THEN <<>>
  ELSE (IF fields[k] = "absent" THEN <<>>
        ELSE <<Member(RequiredFields[k].f, Sample(fields[k]))>>)
       \o ShapeMembers(fields, k + 1)

\* the parsed element the shape stands for
ToElement(shape) ==
  IF shape.whole = "dict" THEN VDict(ShapeMembers(shape.fields, 1)) ELSE Sample(shape.whole)

ToArray(shapes) == VList([i \in 1..Len(shapes) |-> ToElement(shapes[i])])

NoVerdict == Verdict(FALSE, "none", <<>>, 0)

InitValidate ==
  /\ Idle
  /\ \E n \in 0..MaxMilestones :
       \E shapes \in [1..n -> WellFormedShapes] : fin = [ms |-> shapes, edits |-> 0]
  /\ fout = NoVerdict

\* field k of element i is removed or given a value of another type
EditField(i, k, tag) ==
  /\ fout = NoVerdict
  /\ fin.edits < MaxEdits
  /\ i \in 1..Len(fin.ms)
  /\ fin.ms[i].whole = "dict"
  /\ fin.ms[i].fields[k] # tag
  /\ fin' = [ms |-> [fin.ms EXCEPT ![i].fields[k] = tag], edits |-> fin.edits + 1]
  /\ UNCHANGED <<fout, pipeline>>

\* element i is replaced by a value that is not an object
ReplaceElement(i, tag) ==
  /\ fout = NoVerdict
  /\ fin.edits < MaxEdits
  /\ i \in 1..Len(fin.ms)
  /\ fin.ms[i].whole = "dict"
  /\ tag # "dict"
  /\ fin' = [ms |-> [fin.ms EXCEPT ![i].whole = tag], edits |-> fin.edits + 1]
  /\ UNCHANGED <<fout, pipeline>>

\* the validator applied to the array
ValidateStep ==
  /\ fout = NoVerdict
  /\ fout' = ValidateMilestones(ToArray(fin.ms))
  /\ UNCHANGED <<fin, pipeline>>

NextValidate ==
  \/ \E i \in 1..MaxMilestones, k \in 1..NumFields, tag \in FieldTags : EditField(i, k, tag)
  \/ \E i \in 1..MaxMilestones, tag \in ElementTags : ReplaceElement(i, tag)
  \/ ValidateStep

SpecValidate == InitValidate /\ [][NextValidate]_vars

\* the types the specification accepts for each required field, in the
\* order week, title, description, topics_covered, learning_objectives,
\* tasks, resources, tips, estimated_hours
AcceptableTypes ==
  <<{"int"}, {"str"}, {"str"}, {"list"}, {"list"}, {"list"}, {"list"}, {"list"},
    {"int", "float"}>>

Acceptable(shape) ==
  /\ shape.whole = "dict"
  /\ \A k \in 1..NumFields : shape.fields[k] \in AcceptableTypes[k]

\* the one field removed from an otherwise acceptable array, if that is
\* what the array is
Removed ==
  { ik \in (1..Len(fin.ms)) \X (1..NumFields) :
      /\ fin.ms[ik[1]].whole = "dict"
      /\ fin.ms[ik[1]].fields[ik[2]] = "absent"
      /\ \A i \in 1..Len(fin.ms) :
           Acceptable([fin.ms[i] EXCEPT !.fields[ik[2]] =
                         IF i = ik[1] THEN CHOOSE ty \in AcceptableTypes[ik[2]] : TRUE
                         ELSE @]) }

\* C10: the validator accepts an array iff every element has all nine
\* required fields with values of the acceptable types (week an integer,
\* title and description strings, the five list fields arrays,
\* estimated_hours an integer or a float); an accepted array with one
\* required field removed is rejected, and the rejection names that field
\* and the 1-based index of its element
C10_ValidatorAcceptsIffWellTyped ==
  fout # NoVerdict =>
    /\ fout.ok <=> \A i \in 1..Len(fin.ms) : Acceptable(fin.ms[i])
    /\ \A ik \in Removed :
         /\ ~fout.ok
         /\ fout.field = RequiredFields[ik[2]].f
         /\ fout.index = ik[1]

\* ------------------------------------------------------------------------
\* Item creation
\* ------------------------------------------------------------------------

\* the field a record of the table cannot do without
RequiredOf(table) ==
  CASE table = "tasks" -> {W_title}
    [] table = "groceries" -> {W_item_name}
    [] table \in {"goals", "commitments", "reminders"} -> {W_title}
    [] OTHER -> {}

\* the inserts handle_create_item has issued
ItemInserts ==
  IF handlers = {"handle_create_item"} THEN {i \in 1..Len(writes) : TRUE} ELSE {}

\* C11: handle_create_item never issues an insert of a record that lacks a
\* required field of its item type (a task without a title, a grocery
\* without item_name); such a payload ends in an error
C11_NoInsertWithoutRequiredField ==
  \A i \in ItemInserts :
    \A r \in 1..Len(writes[i].rows) :
      \A field \in RequiredOf(writes[i].table) : HasKey(writes[i].rows[r], field)

\* the date-bearing fields of the records of a table
DateFields(table) ==
  CASE table = "tasks" -> {W_due_absolute_iso}
    [] table = "commitments" -> {W_start_time, W_end_time}
    [] table = "reminders" -> {W_due_date}
    [] table = "goals" -> {W_deadline}
    [] OTHER -> {}

\* the data of the create_item payload, as the model sent it
PayloadData == GetOr(parsed, W_data, VDict(<<>>))

\* the value the payload gives for a field, and what pendulum.parse makes
\* of it
Raw(field) == Get(PayloadData, field)

Normalizable(field) == HasKey(PayloadData, field) /\ PendulumParse(Raw(field)).ok

Unparseable(field) == HasKey(PayloadData, field) /\ ~PendulumParse(Raw(field)).ok

\* the record has some field with this text for its value
HasValue(row, text) == \E m \in 1..Len(row.kv) : row.kv[m].v = VStr(text)

\* C12: for every item type with a date-bearing field, once that field has
\* been normalized the record sent to the store carries, for it, a local
\* representation, a UTC representation and the timezone 'Asia/Kolkata'
C12_NormalizedDateCarriesLocalUtcZone ==
  \A i \in ItemInserts :
    \A field \in DateFields(writes[i].table) :
      Normalizable(field) =>
        /\ HasValue(writes[i].rows[1], ToIso8601(PendulumParse(Raw(field)).dt))
        /\ HasValue(writes[i].rows[1], ToIso8601(InUTC(PendulumParse(Raw(field)).dt)))
        /\ HasValue(writes[i].rows[1], W_Asia_Kolkata)

\* C13: when a date or time field of a create_item payload cannot be
\* parsed, then for every item type the field is removed from the record
\* and the record is still inserted
C13_UnparseableDateIsDropped ==
  (pc = "done" /\ handlers = {"handle_create_item"} /\ PayloadData.t = "dict") =>
    \A field \in DateFields(TableOf(Get(parsed, W_type))) :
      Unparseable(field) =>
        /\ Len(writes) = 1
        /\ ~HasKey(writes[1].rows[1], field)

\* days since 1970-01-01 of a calendar date
DayNumber(y, mo, d) ==
  LET yy == IF mo <= 2 THEN y - 1 ELSE y
      era == yy \div 400
      yoe == yy - era * 400
      mp == IF mo > 2 THEN mo - 3 ELSE mo + 9
      doy == (153 * mp + 2) \div 5 + d - 1
      doe == yoe * 365 + yoe \div 4 - yoe \div 100 + doy
  IN era * 146097 + doe - 719468

\* minutes since 1970-01-01T00:00 on the clock the date and time are on
ClockMinutes(dt) == DayNumber(dt.y, dt.mo, dt.d) * 1440 + dt.h * 60 + dt.mi

\* a text re-parsed, with no zone assumed
Reparsed(v) == ParseIso(v.s, 0, "none")

\* the task inserts whose payload gave a parseable due date without offset
LocalDueTasks ==
  {i \in ItemInserts :
     /\ writes[i].table = "tasks"
     /\ Normalizable(W_due_absolute_iso)
     /\ Reparsed(Raw(W_due_absolute_iso)).dt.zone = "none"}

\* C14: for a task created with a parseable local due date, due_date_utc
\* is the local time minus 330 minutes (+05:30), and due_date_local and
\* due_date_utc, re-parsed, denote the same instant
C14_DueDateUtcIsLocalMinusOffset ==
  \A i \in LocalDueTasks :
    LET given == Reparsed(Raw(W_due_absolute_iso))
        utc == Reparsed(Get(writes[i].rows[1], W_due_date_utc))
        local == Reparsed(Get(writes[i].rows[1], W_due_date_local))
    IN /\ utc.ok /\ local.ok
       /\ utc.dt.zone = "UTC"
       /\ ClockMinutes(utc.dt) = ClockMinutes(given.dt) - 330
       /\ utc.dt.sec = given.dt.sec
       /\ ClockMinutes(local.dt) - local.dt.off = ClockMinutes(utc.dt) - utc.dt.off
       /\ local.dt.sec = utc.dt.sec

\* a task due on 1 March at 02:00 local time is stored as due on 28
\* February at 20:30 UTC
C14_Witness ==
  /\ pc = "done"
  /\ LocalDueTasks # {}
  /\ \E i \in LocalDueTasks :
       /\ writes[i].ok
       /\ Get(writes[i].rows[1], W_due_date_utc)
            = VStr(<<"2", "0", "2", "5", "-", "0", "2", "-", "2", "8", "T",
                     "2", "0", ":", "3", "0", ":", "0", "0", "Z">>)

\* ------------------------------------------------------------------------
\* The week count of a learning plan, on its own
\* ------------------------------------------------------------------------
Txt(str) == [i \in 1..Len(str) |-> str[i]]

\* what the model gives for duration_months: nothing, whole and fractional
\* numbers, a negative one, a boolean, a number in quotes, null
MonthInputs ==
  {<<>>}
  \cup {<<TMember(W_duration_months, lit)>> :
          lit \in {<<"0">>, <<"1">>, <<"2">>, <<"3">>, <<"-", "1">>, <<"1", ".", "5">>,
                   <<"0", ".", "5">>, Txt(<<"t", "r", "u", "e">>), TStr(<<"2">>),
                   Txt(<<"n", "u", "l", "l">>)}}

\* what the model gives for duration_text
DurationTexts == {
  <<"2", " ", "m", "o", "n", "t", "h", "s">>,
  <<"8", " ", "w", "e", "e", "k", "s">>,
  <<"2", " ", "w", "e", "e", "k", "s">>,
  <<"1", "2", " ", "W", "E", "E", "K", "S">>,
  <<"1", " ", "w", "e", "e", "k">>,
  <<"a", " ", "w", "e", "e", "k">>,
  <<"3", " ", "m", "o", "n", "t", "h", "s", " ", "2", " ", "w", "e", "e", "k", "s">>,
  <<"1", "0", "w", "e", "e", "k", "s">>,
  <<"6", " ", " ", "W", "e", "e", "k", "s">>}

TextInputs ==
  {<<>>, <<TMember(W_duration_text, Txt(<<"n", "u", "l", "l">>))>>}
  \cup {<<TMember(W_duration_text, TStr(text))>> : text \in DurationTexts}

\* the plan_details of the classification replies
PlanDetailsInputs ==
  {JsonLoads(TObj(months \o text)).v : months \in MonthInputs, text \in TextInputs}

WeeksResult(kind, v) == [kind |-> kind, v |-> v]

InitWeeks ==
  /\ Idle
  /\ fin \in PlanDetailsInputs
  /\ fout = WeeksResult("none", PyNum("int", 0, 1))

\* handle_generate_learning_plan from plan_details to the call of
\* generate_learning_milestones
WeeksStep ==
  /\ fout.kind = "none"
  /\ LET Counted(r) == fout' = WeeksResult(IF r.ok THEN "weeks" ELSE "raised", r.v)
     IN Counted(NumWeeks(fin))
  /\ UNCHANGED fin
  /\ UNCHANGED pipeline

NextWeeks == WeeksStep

SpecWeeks == InitWeeks /\ [][NextWeeks]_vars

\* N: the number of the first "N week(s)" phrase of a text, 0 without one
PhraseWeeks(text) ==
  LET Numbered(week_match) == IF week_match.matched THEN NumVal(week_match.group) ELSE 0
  IN Numbered(WeekMatch(text))

Max(a, b) == IF a >= b THEN a ELSE b

\* C15: for every plan_details the week count requested is
\* max(duration_months * 4, N), N the number of the first "N week(s)"
\* phrase of duration_text and 0 without one; for duration_months = 2 and
\* duration_text "2 months" it is 8
C15_WeekCountIsMax ==
  fout.kind = "weeks" =>
    LET months == GetOr(fin, W_duration_months, VNum("int", <<"1">>))
        text == GetOr(fin, W_duration_text, VStr(<<"4", " ", "w", "e", "e", "k", "s">>))
        Equal(m, n) ==
          /\ fout.v.t \in {"int", "float"}
          /\ fout.v.n * m.d = Max(4 * m.n, n * m.d) * fout.v.d
          /\ fout.v.n * m.d >= 4 * m.n * fout.v.d
          /\ (m = PyNum("int", 2, 1) /\ text.s = <<"2", " ", "m", "o", "n", "t", "h", "s">>)
               => fout.v = PyNum("int", 8, 1)
    IN /\ months.t \in {"int", "float", "bool"}
       /\ Equal(NumberOf(months), PhraseWeeks(text.s))

\* ------------------------------------------------------------------------
\* Learning plans in the store
\* ------------------------------------------------------------------------
\* the milestones of a stored plan
MilestonesOf(plan) == GetOr(plan, W_weekly_milestones, VList(<<>>)).el

\* the milestone carries this week number
IsWeek(milestone, i) ==
  /\ Get(milestone, W_week).t = "int"
  /\ NumberOf(Get(milestone, W_week)) = PyNum("int", i, 1)

\* C16: in every learning plan in the store, after create and after any
\* number of successful extensions, the week numbers of the milestones are
\* 1, 2, ..., len(milestones) in sequence order
C16_WeeksAreContiguousFromOne ==
  \A p \in 1..Len(plans) :
    \A i \in 1..Len(MilestonesOf(plans[p])) : IsWeek(MilestonesOf(plans[p])[i], i)

\* ------------------------------------------------------------------------
\* The extension endpoint: pure parts
\* ------------------------------------------------------------------------
RECURSIVE DigitsOf(_)
\* str(n) for n >= 0
DigitsOf(n) ==
  IF n < 10 THEN <<DigitChars[n + 1]>>
  ELSE DigitsOf(n \div 10) \o <<DigitChars[(n % 10) + 1]>>

\* str(n)
IntLit(n) == IF n < 0 THEN <<"-">> \o DigitsOf(0 - n) ELSE DigitsOf(n)

\* the digits of n, with zeros in front up to the width
ZeroPad(n, width) ==
  LET digits == DigitsOf(n)
  IN [i \in 1..(width - Len(digits)) |-> "0"] \o digits

RECURSIVE TrimZeros(_)
\* a fraction without the zeros at its end, one digit at least
TrimZeros(frac) ==
  IF Len(frac) > 1 /\ frac[Len(frac)] = "0"
  THEN TrimZeros(SubSeq(frac, 1, Len(frac) - 1))
  ELSE frac

\* the number of digits after the point of a number n/d
FracDigits(d) == CHOOSE k \in 0..18 : Pow10(k) = d

\* json.dumps of a number that is not negative
NumLit(num) ==
  IF num.t = "int" THEN IntLit(num.n)
  ELSE DigitsOf(num.n \div num.d) \o <<".">>
         \o TrimZeros(ZeroPad(num.n % num.d, Max(FracDigits(num.d), 1)))

\* int(v): truncation for a float, the digits of a str; not ok where Python
\* raises ValueError or TypeError
PyInt(v) ==
  LET Trunc(num) == IF num.n < 0 THEN 0 - ((0 - num.n) \div num.d) ELSE num.n \div num.d
      Parsed(t) ==
        LET neg == t # <<>> /\ t[1] = "-"
            body == IF neg THEN Tail(t) ELSE t
        IN IF body # <<>> /\ AllDigits(body)
           THEN [ok |-> TRUE, n |-> IF neg THEN 0 - NumVal(body) ELSE NumVal(body)]
           ELSE [ok |-> FALSE, n |-> 0]
  IN CASE v.t \in {"int", "float", "bool"} -> [ok |-> TRUE, n |-> Trunc(NumberOf(v))]
       [] v.t = "str" -> Parsed(Strip(v.s))
       [] OTHER -> [ok |-> FALSE, n |-> 0]

\* title.split(':', 1)[-1].strip()
AfterColon(title) ==
  LET Cut(colon) == IF colon = 0 THEN title ELSE SubSeq(title, colon + 1, Len(title))
  IN Strip(Cut(Find(title, ":")))

\* extend_learning_plan: the new milestones with their week numbers and
\* titles adjusted, the first one being week current_weeks + 1
Renumbered(new_milestones, current_weeks) ==
  [j \in 1..Len(new_milestones) |->
     LET Titled(milestone, i) ==
           Put(Put(milestone, W_week, VNum("int", i)), W_title,
               VStr(<<"W", "e", "e", "k", " ">> \o i \o <<":", " ">>
                    \o AfterColon(Get(milestone, W_title).s)))
     IN Titled(new_milestones[j], IntLit(current_weeks + j))]

\* an extension that starts from no milestones
CurrentMilestonesDropped(plan) == <<>>

\* extend_learning_plan: current_milestones
CurrentMilestones(plan) ==
  LET Listed(stored) == IF stored.t = "list" THEN stored.el ELSE <<>>
  IN Listed(GetOr(plan, W_weekly_milestones, VList(<<>>)))

\* extend_learning_plan: current_duration
CurrentDuration(plan) ==
  LET Checked(stored) ==
        IF stored.t \notin {"int", "float", "bool"} THEN PyNum("int", 0, 1)
        ELSE IF NumberOf(stored).n < 0 THEN PyNum("int", 0, 1)
        ELSE NumberOf(stored)
  IN Checked(GetOr(plan, W_duration_months, VNum("int", <<"0">>)))

\* a number of months that rounds the weeks down
MonthsOfFloor(additional_weeks) == additional_weeks \div 4

\* (additional_weeks // 4) + (1 if additional_weeks % 4 > 0 else 0)
MonthsOf(additional_weeks) ==
  (additional_weeks \div 4) + (IF additional_weeks % 4 > 0 THEN 1 ELSE 0)

\* extend_learning_plan: new_duration
NewDuration(plan, additional_weeks) ==
  LET Sum(current) == [current EXCEPT !.n = @ + MonthsOf(additional_weeks) * current.d]
  IN Sum(CurrentDuration(plan))

\* ------------------------------------------------------------------------
\* The extension endpoint: POST /api/extend-learning-plan
\* ------------------------------------------------------------------------
MaxStored == 2

MaxRequests == 2

W_plan_id == <<"p", "l", "a", "n", "_", "i", "d">>

W_additional_weeks == <<"a", "d", "d", "i", "t", "i", "o", "n", "a", "l", "_", "w", "e", "e", "k", "s">>

\* what create persisted for duration_months: the plan_details value as it
\* came, or the default
StoredDurations == {<<"1">>, <<"-", "1">>, <<"1", ".", "5">>, TStr(<<"2">>)}

\* the plan p2 of user u3: topic b, one month, one milestone
OtherPlan ==
  JsonLoads(TObj(<<TMember(W_id, TStr(<<"p", "2">>)),
                   TMember(W_user_id, TStr(<<"u", "3">>)),
                   TMember(W_topic, TStr(<<"b">>)),
                   TMember(W_duration_months, <<"1">>),
                   TMember(W_weekly_milestones,
                           TArr(<<MilestoneText(WithField(FullMilestone, W_week, IntLit(1)))>>))>>)).v

\* a learning_plans table with the plan p1 of user u1 and the plan p2 of
\* user u3
StoredPlans ==
  {<<JsonLoads(TObj(<<TMember(W_id, TStr(<<"p", "1">>)),
                      TMember(W_user_id, TStr(<<"u", "1">>)),
                      TMember(W_topic, TStr(<<"a">>)),
                      TMember(W_duration_months, months),
                      TMember(W_weekly_milestones,
                              TArr([i \in 1..n |-> MilestoneText(WithField(FullMilestone, W_week, IntLit(i)))]))>>)).v,
     OtherPlan>> :
     months \in StoredDurations, n \in 0..MaxStored}

\* what the client gives for additional_weeks: nothing, zero, a negative
\* number, a fraction, a word, null, and whole numbers
WeekInputs ==
  {<<>>} \cup {<<TMember(W_additional_weeks, lit)>> :
                 lit \in {<<"0">>, <<"-", "1">>, <<"2", ".", "5">>, TStr(<<"a", "b", "c">>),
                          Txt(<<"n", "u", "l", "l">>), <<"1">>, <<"3">>, <<"5">>}}

\* the bodies of the extension requests: the plan p1 with every
\* additional_weeks, and no plan_id or the plan p2 with the default
ExtBodies ==
  {JsonLoads(TObj(<<TMember(W_plan_id, TStr(<<"p", "1">>))>> \o weeks)).v : weeks \in WeekInputs}
  \cup {JsonLoads(TObj(id)).v : id \in {<<>>, <<TMember(W_plan_id, TStr(<<"p", "2">>))>>}}

\* the user-id header: absent, the owner of p1, a user who owns no plan
ExtUsers == {<<>>, <<"u", "1">>, <<"u", "2">>}

\* what the model answers to the milestone prompt of an extension: one
\* milestone, two milestones numbered as the model likes, none, no JSON
ExtReplies == {
  GoodMilestones,
  TArr(<<MilestoneText(WithField(FullMilestone, W_title, TStr(<<"W", "e", "e", "k", " ", "1", ":", " ", "a">>))),
         MilestoneText(WithField(FullMilestone, W_week, <<"7">>))>>),
  TArr(<<>>),
  <<"o", "k">> }

InitExtend ==
  /\ pc = "idle"
  /\ userId = <<>>
  /\ activeGoal = VNull
  /\ clients = "none"
  /\ ctx = NoContext
  /\ aiContent = <<>>
  /\ parsed = VNull
  /\ attempt = 0
  /\ milestones = VNull
  /\ llmCalls = <<>>
  /\ rejects = <<>>
  /\ writes = <<>>
  /\ handlers = {}
  /\ resp = NoResp
  /\ elapsed = FALSE
  /\ enrich = <<>>
  /\ fin = <<>>
  /\ fout = <<>>
  /\ plans \in StoredPlans
  /\ ext = NoExt

\* a select by id alone
MatchingAnyUser(plan_id, user_id) ==
  {i \in 1..Len(plans) : Get(plans[i], W_id) = plan_id}

\* supabase.from_('learning_plans').select('*').eq('id', plan_id)
\* .eq('user_id', user_id): the positions of the rows that match
Matching(plan_id, user_id) ==
  {i \in 1..Len(plans) : Get(plans[i], W_id) = plan_id /\ Get(plans[i], W_user_id) = user_id}

\* extend_learning_plan_endpoint and extend_learning_plan up to the first
\* call of generate_learning_milestones
ExtReceive(data, user, clientsOk) ==
  /\ pc \in {"idle", "done"}
  /\ ext.served < MaxRequests
  /\ clients' = IF clientsOk THEN "ready" ELSE "failed"
  /\ userId' = user
  /\ parsed' = data
  /\ aiContent' = <<>>
  /\ llmCalls' = <<>>
  /\ rejects' = <<>>
  /\ handlers' = {"extend_learning_plan_endpoint"}
  /\ UNCHANGED <<activeGoal, ctx, milestones, writes, elapsed, enrich, fin, fout, plans>>
  /\ LET plan_id == Get(data, W_plan_id)
         given == GetOr(data, W_additional_weeks, VNum("int", <<"4">>))
         Refused(status, detail) ==
           /\ pc' = "done"
           /\ resp' = HttpError(status, detail)
           /\ attempt' = 0
           /\ ext' = [NoExt EXCEPT !.plan_id = plan_id, !.user_id = VStr(user),
                                   !.given = given, !.served = ext.served + 1]
         Fetched(additional_weeks, rows) ==
           IF rows = {} THEN Refused(400, "Plan not found or you don't have permission to access it")
           ELSE /\ pc' = "ext_primary"
                /\ resp' = NoResp
                /\ attempt' = 1
                /\ ext' = [plan_id |-> plan_id, user_id |-> VStr(user), given |-> given,
                           additional_weeks |-> additional_weeks,
                           plan |-> plans[CHOOSE i \in rows : \A j \in rows : i <= j],
                           total_weeks |-> 0, served |-> ext.served + 1]
         Converted(additional_weeks) ==
           IF ~additional_weeks.ok \/ ~Truthy(plan_id) \/ additional_weeks.n <= 0
           THEN Refused(400, "Invalid request data")
           ELSE IF user = <<>> THEN Refused(401, "Authentication required. Please log in again.")
           ELSE IF plan_id.t # "str" THEN Refused(400, "Invalid plan ID")
           ELSE Fetched(additional_weeks.n, Matching(plan_id, VStr(user)))
     IN IF ~clientsOk
        THEN Refused(500, "Failed to initialize required services. Please try again later.")
        ELSE Converted(PyInt(given))

\* extend_learning_plan: generate_learning_milestones raised; the except
\* branch calls it again with the other client, and after that the outer
\* except answers
ExtAttemptFailed ==
  IF attempt = 1
  THEN /\ attempt' = 2
       /\ pc' = "ext_primary"
       /\ UNCHANGED resp
  ELSE /\ pc' = "done"
       /\ resp' = HttpError(400, "Database operation failed")
       /\ UNCHANGED attempt

\* extend_learning_plan after generate_learning_milestones has a model
\* response: validation, renumbering, the update of the plan, the response
ExtOutcome(text, dbOk) ==
  LET current == CurrentMilestones(ext.plan)
      Updated(row, milestones_, months) ==
        IF Get(row, W_id) = ext.plan_id
        THEN Put(Put(row, W_weekly_milestones, VList(milestones_)), W_duration_months,
                 VNum(months.t, NumLit(months)))
        ELSE row
      Combined(updated_milestones, new_duration) ==
        IF ~dbOk
        THEN /\ pc' = "done"
             /\ resp' = HttpError(400, "Failed to update learning plan in the database")
             /\ UNCHANGED <<plans, ext>>
        ELSE /\ plans' = [i \in 1..Len(plans) |-> Updated(plans[i], updated_milestones, new_duration)]
             /\ ext' = [ext EXCEPT !.total_weeks = Len(updated_milestones)]
             /\ pc' = "done"
             /\ resp' = JsonResp(200, "none", {"status", "message", "plan_id", "total_weeks"}, "")
      Returned(r) ==
        IF ~r.verdict.ok
        THEN /\ rejects' = Append(rejects, Reject(r.verdict.kind))
             /\ ExtAttemptFailed
             /\ UNCHANGED <<plans, ext>>
        ELSE /\ UNCHANGED <<rejects, attempt>>
             /\ IF r.v.el = <<>>
                THEN /\ pc' = "done"
                     /\ resp' = HttpError(400, "Failed to generate new milestones. Please try again.")
                     /\ UNCHANGED <<plans, ext>>
                ELSE Combined(current \o Renumbered(r.v.el, Len(current)),
                              NewDuration(ext.plan, ext.additional_weeks))
  IN Returned(ParseMilestones(text))

\* generate_learning_milestones for the extension:
\* response = await llm.ainvoke(prompt)
ExtPrimary(raised, text, dbOk) ==
  /\ pc = "ext_primary"
  /\ llmCalls' = Append(llmCalls, LlmCall("milestones", AttemptLlm, "primary", raised))
  /\ UNCHANGED <<userId, activeGoal, clients, ctx, parsed, milestones, writes, handlers,
                 elapsed, enrich, fin, fout>>
  /\ IF raised
     THEN /\ pc' = "ext_fallback"
          /\ UNCHANGED <<aiContent, rejects, attempt, resp, plans, ext>>
     ELSE /\ aiContent' = text
          /\ ExtOutcome(text, dbOk)

\* generate_learning_milestones for the extension: the call of the except
\* branch
ExtFallback(raised, text, dbOk) ==
  /\ pc = "ext_fallback"
  /\ llmCalls' = Append(llmCalls, LlmCall("milestones", AttemptLlm, "fallback", raised))
  /\ UNCHANGED <<userId, activeGoal, clients, ctx, parsed, milestones, writes, handlers,
                 elapsed, enrich, fin, fout>>
  /\ IF raised
     THEN /\ ExtAttemptFailed
          /\ UNCHANGED <<aiContent, rejects, plans, ext>>
     ELSE /\ aiContent' = text
          /\ ExtOutcome(text, dbOk)

NextExtend ==
  \/ \E data \in ExtBodies, user \in ExtUsers, clientsOk \in BOOLEAN :
       ExtReceive(data, user, clientsOk)
  \/ \E raised \in BOOLEAN, dbOk \in BOOLEAN :
       \E text \in (IF raised THEN {<<>>} ELSE ExtReplies) :
         ExtPrimary(raised, text, dbOk)
  \/ \E raised \in BOOLEAN, dbOk \in BOOLEAN :
       \E text \in (IF raised THEN {<<>>} ELSE ExtReplies) :
         ExtFallback(raised, text, dbOk)

SpecExtend == InitExtend /\ [][NextExtend]_vars

\* ------------------------------------------------------------------------
\* Claims about the extension endpoint
\* ------------------------------------------------------------------------
\* the request has been answered with success
Extended ==
  /\ pc = "done"
  /\ handlers = {"extend_learning_plan_endpoint"}
  /\ resp.status = 200

\* the plan of the request, as it is in the store
StoredPlan == plans[CHOOSE i \in 1..Len(plans) : Get(plans[i], W_id) = ext.plan_id]

\* C17: after a successful extension of a plan of n milestones by
\* additional_weeks = k the stored plan has n + k milestones, the appended
\* ones carry the week numbers n+1, ..., n+k in order, and the reported
\* total_weeks is n + k
C17_ExtensionAppendsKWeeks ==
  Extended =>
    LET n == Len(MilestonesOf(ext.plan))
        k == ext.additional_weeks
    IN /\ Len(MilestonesOf(StoredPlan)) = n + k
       /\ \A i \in (n + 1)..(n + k) : IsWeek(MilestonesOf(StoredPlan)[i], i)
       /\ ext.total_weeks = n + k

\* ceil(k / 4)
CeilQuarter(k) == (k + 3) \div 4

\* the stored duration_months is the number prev plus ceil(k / 4)
DurationIs(prev, k) ==
  /\ Get(StoredPlan, W_duration_months).t \in {"int", "float"}
  /\ NumberOf(Get(StoredPlan, W_duration_months)).n * prev.d
       = (prev.n + CeilQuarter(k) * prev.d) * NumberOf(Get(StoredPlan, W_duration_months)).d

\* the duration_months of the plan before the extension is a number that is
\* not negative
PreviousIsDuration ==
  /\ Get(ext.plan, W_duration_months).t \in {"int", "float"}
  /\ NumberOf(Get(ext.plan, W_duration_months)).n >= 0

InvalidWeeks(given) == ~(given.t = "int" /\ NumberOf(given).n > 0)

\* a request with a plan id by a caller with a user id, with the services
\* up, has just been taken up
Asked ==
  /\ handlers' = {"extend_learning_plan_endpoint"}
  /\ clients' = "ready"
  /\ userId' # <<>>
  /\ Truthy(ext'.plan_id)

\* the request has been refused with this error, no model call has been
\* made and the store is as it was
RefusedWith(detail) ==
  /\ pc' = "done"
  /\ resp' = HttpError(400, detail)
  /\ llmCalls' = <<>>
  /\ plans' = plans

\* C19: an extension request fails with a plan-not-found error when no plan
\* matches the plan id and the user id, and with an invalid-week-count
\* error when additional_weeks is not a positive integer; in both cases no
\* model call is made and the stored plan is left unchanged
C19_BadExtensionIsRefused ==
  [][Asked =>
       /\ InvalidWeeks(ext'.given) => RefusedWith("Invalid request data")
       /\ (~InvalidWeeks(ext'.given) /\ Matching(ext'.plan_id, ext'.user_id) = {})
            => RefusedWith("Plan not found or you don't have permission to access it")]_vars

\* ------------------------------------------------------------------------
\* Claims about the tasks of the first week
\* ------------------------------------------------------------------------
\* milestones[0].tasks of the plan that was generated
FirstWeekEntries ==
  IF milestones.t # "list" \/ milestones.el = <<>> THEN <<>>
  ELSE GetOr(milestones.el[1], W_tasks, VList(<<>>)).el

\* the row is the task for the entry at index i - 1, due i days after now
IsFirstWeekTask(row, entry, i, now) ==
  /\ Get(row, W_title) = entry
  /\ Get(row, W_priority) = VNum("int", <<"2">>)
  /\ Get(row, W_estimate) = VNum("int", <<"4", "5">>)
  /\ Get(row, W_status) = VStr(W_Inbox)
  /\ Get(row, W_tags) = VList(<<VStr(W_learning), VStr(W_auto_generated)>>)
  /\ Reparsed(Get(row, W_due_date_local)).ok
  /\ Reparsed(Get(row, W_due_date_local)).dt.off = KolkataOffset
  /\ ClockMinutes(Reparsed(Get(row, W_due_date_local)).dt) = ClockMinutes(now) + 1440 * i
  /\ Reparsed(Get(row, W_due_date_local)).dt.sec = now.sec

\* the tasks of the entries have been stored by one insert
FirstWeekStored(entries) ==
  \E w \in 1..Len(writes) : \E now \in Nows :
    /\ writes[w].table = "tasks"
    /\ writes[w].ok
    /\ Len(writes[w].rows) = Len(entries)
    /\ \A i \in 1..Len(entries) : IsFirstWeekTask(writes[w].rows[i], entries[i], i, now)

\* C20: whenever learning-plan create answers plan_created, one task per
\* entry of milestones[0].tasks has been stored, the entry at index i due
\* at now + (i + 1) days, tagged learning and auto-generated, with priority
\* 2, estimate 45 and status Inbox, and created_tasks_count is the number
\* of entries
C20_FirstWeekTasksCreated ==
  (pc = "done" /\ resp.type = "plan_created") =>
    /\ resp.count = Len(FirstWeekEntries)
    /\ FirstWeekEntries # <<>> => FirstWeekStored(FirstWeekEntries)

\* ------------------------------------------------------------------------
\* Enrichment of grocery records

\* the request was answered by handle_create_item after its insert into
\* groceries succeeded
GroceryItemCreated ==
  /\ pc = "done"
  /\ handlers = {"handle_create_item"}
  /\ Len(writes) = 1
  /\ writes[1].table = "groceries"
  /\ writes[1].ok

\* C21: a grocery create_item whose insert succeeded is answered with
\* creation_success and the record as the store returned it, whatever the
\* enrichment task does (still pending, sent, failed, timed out): the
\* response is built without waiting for the task and no outcome of the task
\* changes it
C21_CreationAnsweredWhateverEnrichmentDoes ==
  GroceryItemCreated =>
    /\ resp.status = 200
    /\ resp.type = "creation_success"
    /\ resp.item = Created(writes[1].rows, 0)[1]
    /\ Len(enrich) = 1
    /\ enrich[1].state \in {"pending", "sent", "failed", "timeout"}

\* the grocery record was created and its enrichment task timed out
C21_Witness ==
  /\ GroceryItemCreated
  /\ resp.type = "creation_success"
  /\ enrich[1].state = "timeout"

\* the grocery record of task i carries a name, a quantity and a unit
HasNameQuantityUnit(item) ==
  /\ Truthy(Get(item, W_item_name))
  /\ Get(item, W_quantity).t # "null"
  /\ Truthy(Get(item, W_unit))

\* C22: the enrichment request sent for a created grocery record that has a
\* name, a quantity and a unit carries item_name, quantity, unit, grocery_id
\* and user_id as top-level fields, so the endpoint does not answer it with
\* "Missing required fields"
C22_EnrichmentRequestIsAccepted ==
  \A i \in 1..Len(enrich) :
    (enrich[i].state = "sent" /\ HasNameQuantityUnit(enrich[i].item)) =>
      /\ MissingFields(EnrichRequest(enrich[i].item)) = <<>>
      /\ enrich[i].answer # "missing required fields"

\* ------------------------------------------------------------------------
\* Direct routing of learning plans
\* ------------------------------------------------------------------------
\* the envelope the dispatcher builds in place of the classifier's answer
SynthEnvelope(plan_details) ==
  VDict(<<[k |-> W_intent, v |-> VStr(W_generate_learning_plan)],
          [k |-> W_plan_details, v |-> plan_details]>>)

\* the step that receives body hands it to handle_generate_learning_plan
\* with the synthesized envelope, without a context fetch or a model call
RoutedDirectly(body) ==
  /\ parsed' = SynthEnvelope(body.plan_details)
  /\ handlers' = {"handle_generate_learning_plan"}
  /\ pc' = "glm_primary"
  /\ ctx' = NoContext
  /\ llmCalls' = <<>>

\* no classification call is made in a request whose context was not fetched
NoClassification ==
  ctx = NoContext => \A i \in 1..Len(llmCalls) : llmCalls[i].prompt # "intent"

\* C23 as stated: a request that supplies plan_details with a topic is
\* routed to learning-plan create with a synthesized generate_learning_plan
\* envelope, without the classification call and without the context
\* fetch, whatever userInput and intent say (the clients being available)
C23_TopicRoutesDirectly ==
  /\ []NoClassification
  /\ [][\A body \in Bodies, fetch \in Fetches :
          (Receive(body, TRUE, fetch) /\ Truthy(Get(body.plan_details, W_topic)))
            => RoutedDirectly(body)]_vars

\* C23 for requests that pass the check of userInput and userId: with both
\* non-empty, a request that supplies plan_details with a topic is routed to
\* learning-plan create with the synthesized envelope, no context is
\* fetched and no classification call is made, whatever intent says
C23_TopicRoutesDirectlyWhenInputGiven ==
  /\ []NoClassification
  /\ [][\A body \in Bodies, fetch \in Fetches :
          (/\ Receive(body, TRUE, fetch)
           /\ Truthy(Get(body.plan_details, W_topic))
           /\ body.userInput # <<>>
           /\ body.userId # <<>>)
            => RoutedDirectly(body)]_vars

\* a request was routed directly and its learning plan was generated and
\* stored: no context, no classification call
C23_Witness ==
  /\ pc = "done"
  /\ handlers = {"handle_generate_learning_plan"}
  /\ ctx = NoContext
  /\ Get(parsed, W_intent) = VStr(W_generate_learning_plan)
  /\ resp.status = 200
  /\ llmCalls # <<>>
  /\ \A i \in 1..Len(llmCalls) : llmCalls[i].prompt # "intent"

\* ------------------------------------------------------------------------
\* The user context
\* ------------------------------------------------------------------------
\* every field of the context is empty
ContextIsEmpty ==
  /\ ~ctx.profile
  /\ ctx.tasks = 0 /\ ctx.groceries = 0 /\ ctx.expenses = 0
  /\ ctx.commitments = 0 /\ ctx.learning_plans = 0

\* each sequence of the context has at most the length of its query's limit
ContextWithinBounds ==
  /\ ctx.tasks <= 5 /\ ctx.groceries <= 5 /\ ctx.expenses <= 5
  /\ ctx.commitments <= 3 /\ ctx.learning_plans <= 3

\* the request goes on to its model call: the classification prompt, or the
\* grocery prompt when the explicit intent asks for it
ProceedsToModelCall(body) ==
  /\ resp' = NoResp
  /\ pc' = IF body.intent = "generate_grocery_plan" THEN "gp_primary" ELSE "classify"

\* C24: when one of the context fetches (profile, tasks, groceries,
\* expenses, commitments, learning plans) fails, the request is not ended:
\* the context is empty and the request goes on to the prompt and the model
\* call; and the sequences of every context have at most 5 tasks, 5
\* groceries, 5 expenses, 3 commitments and 3 learning plans
C24_ContextFailureDegradesToEmpty ==
  /\ [](ContextWithinBounds /\ (ctx.status = "empty" => ContextIsEmpty))
  /\ [][\A body \in Bodies, fetch \in Fetches :
          (/\ Receive(body, TRUE, fetch)
           /\ body.userInput # <<>> /\ body.userId # <<>>
           /\ ~DirectRouting(body.plan_details)
           /\ fetch.failing # "none")
            => (ctx'.status = "empty" /\ ProceedsToModelCall(body))]_vars

\* the context fetch failed and the classification call was made and
\* answered
C24_Witness ==
  /\ ctx.status = "empty"
  /\ ContextIsEmpty
  /\ \E i \in 1..Len(llmCalls) : llmCalls[i].prompt = "intent" /\ ~llmCalls[i].failed
  /\ resp.status = 200

\* ------------------------------------------------------------------------
\* Grocery plans
\* ------------------------------------------------------------------------
\* the model answered the grocery prompt with a JSON object that was
\* recovered
GroceryPlanParsed ==
  /\ pc = "done"
  /\ handlers = {"handle_generate_grocery_plan"}
  /\ parsed.t = "dict"

\* the entries of the plan the model returned
PlanEntries == GetOr(parsed, W_grocery_plan, VList(<<>>))

\* row is the grocery record of entry: its name, not bought, and the id of
\* the active goal of the request, null without one
RecordOf(row, entry) ==
  /\ Get(row, W_item_name) = Get(entry, W_item_name)
  /\ Get(row, W_user_id) = VStr(userId)
  /\ Get(row, W_bought) = VBool(<<"f", "a", "l", "s", "e">>)
  /\ Get(row, W_goal_id) = IF activeGoal = VNull THEN VNull ELSE Get(activeGoal, W_id)

\* C25: a grocery plan of N >= 1 entries leads to exactly one insert, of N
\* grocery records, one per entry in the order of the entries, each with
\* bought = false and goal_id the id of the active goal of the request or
\* null without one; a plan of zero entries leads to no insert and the
\* request fails
C25_OneBatchInsertPerPlan ==
  (GroceryPlanParsed /\ PlanEntries.t = "list") =>
    IF PlanEntries.el = <<>>
    THEN writes = <<>> /\ resp.status = 500
    ELSE /\ Len(writes) = 1
         /\ writes[1].table = "groceries"
         /\ Len(writes[1].rows) = Len(PlanEntries.el)
         /\ \A i \in 1..Len(PlanEntries.el) :
              RecordOf(writes[1].rows[i], PlanEntries.el[i])

\* a plan of two entries was stored for a request with an active goal
C25_Witness ==
  /\ GroceryPlanParsed
  /\ Len(PlanEntries.el) = 2
  /\ activeGoal # VNull
  /\ Len(writes) = 1 /\ writes[1].ok
  /\ Get(writes[1].rows[1], W_item_name) # Get(writes[1].rows[2], W_item_name)
  /\ resp.type = "grocery_plan_created"

\* ------------------------------------------------------------------------
\* Requests without userInput or userId
\* ------------------------------------------------------------------------
\* the step ends the request with a 4xx answer and has initialised no
\* client, fetched no context, called no model and written nothing
RefusedAsClientError ==
  /\ pc' = "done"
  /\ resp'.status \in 400..499
  /\ clients' = "none"
  /\ ctx' = NoContext
  /\ llmCalls' = <<>>
  /\ writes' = <<>>

\* C26: a request whose userInput or userId is missing or empty ends in a
\* client error (4xx) before any client initialisation, context fetch,
\* model call or store write
C26_MissingInputIsClientError ==
  [][\A body \in Bodies, clientsOk \in BOOLEAN, fetch \in Fetches :
       (Receive(body, clientsOk, fetch) /\ (body.userInput = <<>> \/ body.userId = <<>>))
         => RefusedAsClientError]_vars

\* ------------------------------------------------------------------------
\* Enrichment events
\* ------------------------------------------------------------------------
\* the records the store reported as created by the first n inserts that
\* went to groceries and succeeded, in the order of the inserts
RECURSIVE CreatedGroceries(_)
CreatedGroceries(n) ==
  IF n = 0 THEN <<>>
  ELSE CreatedGroceries(n - 1)
       \o (IF writes[n].table = "groceries" /\ writes[n].ok
           THEN Created(writes[n].rows, n - 1)
           ELSE <<>>)

\* the records for which an enrichment task was created, in order
EnrichedItems == [i \in 1..Len(enrich) |-> enrich[i].item]

\* C27: the enrichment tasks created are exactly one for each grocery
\* record the store reported as created, by create_item or by the grocery
\* plan; there is none for an insert that failed and none for a record of
\* another table
C27_OneEnrichmentPerCreatedGrocery ==
  /\ EnrichedItems = CreatedGroceries(Len(writes))
  /\ \A i, j \in 1..Len(enrich) : enrich[i].item = enrich[j].item => i = j

\* a grocery plan of two records was stored and two enrichment tasks exist
C27_Witness ==
  /\ Len(writes) = 1
  /\ writes[1].table = "groceries" /\ writes[1].ok
  /\ Len(writes[1].rows) = 2
  /\ Len(enrich) = 2

\* ------------------------------------------------------------------------
\* Order of the steps of learning-plan creation
\* ------------------------------------------------------------------------
\* a store request of the running request went to table
WroteTo(w, table) == w \in 1..Len(writes) /\ writes[w].table = table

\* the milestones held are the validated outcome of the last model answer
MilestonesValidated ==
  LET Passed(r) == r.verdict.ok /\ milestones = r.v
  IN milestones.t = "list" /\ Passed(ParseMilestones(aiContent))

\* C28: in a learning-plan create request the plan is inserted only after a
\* model output passed extraction and validation, and it carries that
\* output; the first-week tasks are inserted only right after a plan insert
\* that succeeded; and a request that ends in failure (generation,
\* validation or plan insert failed) has created no plan and no task
C28_PlanStepsAreOrdered ==
  handlers = {"handle_generate_learning_plan"} =>
    /\ \A w \in 1..Len(writes) :
         /\ WroteTo(w, "learning_plans") =>
              /\ MilestonesValidated
              /\ Get(writes[w].rows[1], W_weekly_milestones) = milestones
         /\ WroteTo(w, "tasks") =>
              w > 1 /\ WroteTo(w - 1, "learning_plans") /\ writes[w - 1].ok
    /\ (pc = "done" /\ resp.status # 200) =>
         /\ plans = <<>>
         /\ \A w \in 1..Len(writes) : ~writes[w].ok
    /\ (pc # "done") => writes = <<>>

\* the second attempt gave the milestones, and the plan and then its
\* first-week tasks were inserted
C28_Witness ==
  /\ handlers = {"handle_generate_learning_plan"}
  /\ pc = "done"
  /\ attempt = 2
  /\ Len(writes) = 2
  /\ WroteTo(1, "learning_plans") /\ writes[1].ok
  /\ WroteTo(2, "tasks") /\ writes[2].ok
  /\ plans # <<>>

\* ------------------------------------------------------------------------
\* What an extension leaves alone
\* ------------------------------------------------------------------------
\* C29: after a successful extension the milestones the plan had when the
\* request fetched it are the first milestones of the stored plan, element
\* for element, and the id, the topic and the owner of the plan are as they
\* were
C29_ExtensionOnlyAppends ==
  Extended =>
    /\ Len(MilestonesOf(StoredPlan)) > Len(MilestonesOf(ext.plan))
    /\ \A i \in 1..Len(MilestonesOf(ext.plan)) :
         MilestonesOf(StoredPlan)[i] = MilestonesOf(ext.plan)[i]
    /\ Get(StoredPlan, W_topic) = Get(ext.plan, W_topic)
    /\ Get(StoredPlan, W_user_id) = Get(ext.plan, W_user_id)
    /\ Get(StoredPlan, W_id) = Get(ext.plan, W_id)

\* a plan of two milestones was extended
C29_Witness ==
  /\ Extended
  /\ Len(MilestonesOf(ext.plan)) = 2
  /\ Len(MilestonesOf(StoredPlan)) > 2

\* C30: an extension never modifies the plan of another user: a step
\* changes a stored plan only if that plan has the id of the request and the
\* user id of the caller and is the plan the request fetched, and no other
\* plan changes in that step
C30_OnlyTheCallersPlanIsUpdated ==
  [][\A i \in 1..Len(plans) :
       plans'[i] # plans[i] =>
         /\ Get(plans[i], W_user_id) = VStr(userId)
         /\ Get(plans[i], W_id) = ext.plan_id
         /\ i \in Matching(ext.plan_id, ext.user_id)
         /\ plans[i] = ext.plan
         /\ Get(plans'[i], W_user_id) = VStr(userId)]_vars

\* the plan of user u3 was asked for by another user and refused, and the
\* plan is as it was
C30_Witness ==
  /\ pc = "done"
  /\ ext.plan_id = Get(OtherPlan, W_id)
  /\ userId # <<>>
  /\ VStr(userId) # Get(OtherPlan, W_user_id)
  /\ resp.status = 400
  /\ resp.detail = "Plan not found or you don't have permission to access it"
  /\ plans[2] = OtherPlan

====
